---- MODULE Spec2Model ----
(***************************************************************************)
(* A model of the SPL explanation pipeline of hahahatt/sk_llm:             *)
(*   src/query_test.py  - rule-based pipeline (parse_spl, summarize_spl,   *)
(*                        validate_spl, _mk_md_base) and the facade with   *)
(*                        the LLM attempt and the rule-based fallback;     *)
(*   src/back/explain.py - the LLM-only facade.                            *)
(*                                                                         *)
(* Python strings are modelled as sequences of tokens.  A token is a run   *)
(* of characters that the regular expressions of the source never split:   *)
(* one whitespace character, one of the symbols | [ ] = " , or a run of    *)
(* other characters.  The token alphabet is chosen so that                 *)
(*   - no token contains whitespace or one of | [ ] inside it,             *)
(*   - no token has a command keyword as a proper prefix, and no           *)
(*     concatenation of two tokens spells a keyword,                       *)
(* so that matching the source's regular expressions token by token gives  *)
(* the result of matching them character by character.                     *)
(***************************************************************************)
EXTENDS Integers, Sequences, FiniteSets, TLC

VARIABLES
    files,              \* the data directory: the content of each user's library and progress file
    marked,             \* history: the mark_scenario_completed calls made so far
    invs,               \* concurrent invocations of one function: the locals of each
    made,               \* history: the fields of the SplOps instance constructed last
    cases,              \* CaseLibraryManager: the cases stored in the library file
    impl,               \* which entry point runs: "rule", "query_test", "back"
    pc,                 \* position inside the running function
    spl,                \* the query text given by the caller
    prefer_gpt,         \* facade argument (query_test.py)
    include_raw_query,  \* facade argument
    openai,             \* module global _OPENAI: TRUE when a client is configured
    parsed,             \* explain_spl_to_markdown_full local: result of parse_spl
    summary,            \* explain_spl_to_markdown_full local
    base_md,            \* explain_spl_to_markdown_full local
    warnings,           \* explain_spl_to_markdown_full local
    used_engine,        \* facade local
    llm_error,          \* facade local: optional string
    out,                \* facade local: optional string
    e1, e2,             \* exception type names caught in llm_explain_and_validate
    api_calls,          \* history: the API calls made so far, each with its outcome
    llm_entries,        \* history: entries into llm_explain_and_validate
    rule_runs,          \* history: runs of explain_spl_to_markdown_full
    result              \* what the caller receives: a record, or a raised exception

vars == <<files, marked, invs, made, cases, impl, pc, spl, prefer_gpt, include_raw_query, openai, parsed, summary,
          base_md, warnings, used_engine, llm_error, out, e1, e2, api_calls, llm_entries, rule_runs,
          result>>

----------------------------------------------------------------------------
(* Bounds *)

\* a query of the rule pipeline is a concatenation of at most MaxPieces pieces
MaxPieces == 3

----------------------------------------------------------------------------
(* Tokens and character classes *)

SP == " "
NL == "\n"

\* src/query_test.py:92-95
essential_cmds ==
    <<"search", "eval", "transaction", "stats", "timechart", "where",
      "lookup", "rex", "join", "sort", "dedup", "table", "fields">>

EssentialSet == {essential_cmds[i] : i \in DOMAIN essential_cmds}

\* the nine section headings of the document, in order: the "### ..." lines of
\* src/query_test.py:253-259 and 363-368, written here with the English names
\* of spec section 6 (the module text is kept ASCII)
NineHeadings ==
    <<"### Overall Description", "### Intent Summary", "### Data Source",
      "### Base Filters", "### Operation Steps", "### Tuning/Threshold Points",
      "### False-Positive Considerations", "### Output Fields",
      "### Validation Result">>

HeadingSet == {NineHeadings[i] : i \in DOMAIN NineHeadings}

\* tokens made of word characters only ([A-Za-z0-9_])
PlainWords ==
    EssentialSet \cup
    {"STATS", "x", "y", "k", "foo", "count", "index", "sourcetype", "earliest",
     "latest", "main", "now", "5", "host", "as", "AS", "total", "maxspan",
     "event_id", "4688", "4625", "4624", "powershell", "sqlmap", "UNION",
     "field", "uri", "SELECT", "BY", "src_ip", "_time"}

\* tokens that start and end with a word character but hold other characters
MixedWords == {"host,user", "web:access", "7z.exe"}

\* tokens that start with a non-word character and end with a word character
TailWords == {"-24h"}

\* \s
IsSpace(t) == t \in {SP, NL}

\* the token starts with a character of \w
IsWordStart(t) == t \in PlainWords \cup MixedWords

\* the token ends with a character of \w (a heading line ends with a letter)
IsWordEnd(t) == t \in PlainWords \cup MixedWords \cup TailWords \cup HeadingSet

\* The value classes of the source: "index" is [\w:-], "sourcetype" is [\w:.-],
\* "time" is [\w@:.+-] (earliest, latest) and "span" is [\w:] (maxspan).
\* ValPrefix is the longest prefix of a token made of characters of the class,
\* "" when its first character is outside the class.
ValPrefix(t, cls) ==
    IF t \in PlainWords \cup {"web:access"} THEN t
    ELSE IF t = "-24h" THEN (IF cls = "span" THEN "" ELSE t)
    ELSE IF t = "host,user" THEN "host"
    ELSE IF t = "7z.exe" THEN (IF cls \in {"sourcetype", "time"} THEN t ELSE "7z")
    ELSE ""

\* the whole token is made of characters of the value class
ValWhole(t, cls) == t # "" /\ ValPrefix(t, cls) = t

\* the value tokens in the order of Python's str comparison (code points); no
\* token is a prefix of another, so comparing token by token compares the strings
SortedTokens ==
    <<"-24h", "4624", "4625", "4688", "5", "7z", "7z.exe", "AS", "BY", "SELECT",
      "STATS", "UNION", "_time", "as", "count", "dedup", "earliest", "eval",
      "event_id", "field", "fields", "foo", "host", "index", "join", "k", "latest",
      "lookup", "main", "maxspan", "now", "powershell", "rex", "search", "sort",
      "sourcetype", "sqlmap", "src_ip", "stats", "table", "timechart", "total",
      "transaction", "uri", "web:access", "where", "x", "y">>

TokRank(t) == CHOOSE i \in DOMAIN SortedTokens : SortedTokens[i] = t

\* str.lower() of one token (re.I for the keyword of a pattern)
Lower(t) ==
    CASE t = "STATS" -> "stats"
      [] t = "AS"    -> "as"
      [] t = "UNION" -> "union"
      [] t = "SELECT" -> "select"
      [] t = "BY"    -> "by"
      [] OTHER       -> t

\* the token starts with a digit (\d)
IsDigitStart(t) == t \in {"5", "4688", "4625", "4624", "7z.exe"}

----------------------------------------------------------------------------
(* Strings *)

RECURSIVE SkipWs(_, _)
\* the first position >= i that does not hold whitespace (greedy \s*)
SkipWs(text, i) ==
    IF i <= Len(text) /\ IsSpace(text[i]) THEN SkipWs(text, i + 1) ELSE i

RECURSIVE SkipWsBack(_, _)
\* the last position <= i that does not hold whitespace
SkipWsBack(text, i) ==
    IF i >= 1 /\ IsSpace(text[i]) THEN SkipWsBack(text, i - 1) ELSE i

\* str.strip()
Strip(s) == SubSeq(s, SkipWs(s, 1), SkipWsBack(s, Len(s)))

RECURSIVE Collapse(_)
\* re.sub(r"\s+", " ", s)
Collapse(s) ==
    IF s = <<>> THEN <<>>
    ELSE IF IsSpace(s[1])
         THEN <<SP>> \o Collapse(SubSeq(s, SkipWs(s, 1), Len(s)))
         ELSE <<s[1]>> \o Collapse(Tail(s))

\* src/query_test.py:89-90
_norm_ws(s) == Collapse(Strip(s))

RECURSIVE FirstFrom(_, _, _)
\* the first position >= p holding token c, 0 when there is none
FirstFrom(text, p, c) ==
    IF p > Len(text) THEN 0
    ELSE IF text[p] = c THEN p
    ELSE FirstFrom(text, p + 1, c)

RECURSIVE Join(_, _)
\* sep.join(items) for a sequence of strings
Join(items, sep) ==
    IF items = <<>> THEN <<>>
    ELSE IF Len(items) = 1 THEN items[1]
    ELSE items[1] \o sep \o Join(Tail(items), sep)

RECURSIVE Split(_, _)
\* s.split(c) / re.split for a one-character separator c
Split(s, c) ==
    LET p == FirstFrom(s, 1, c)
    IN  IF p = 0 THEN <<s>>
        ELSE <<SubSeq(s, 1, p - 1)>> \o Split(SubSeq(s, p + 1, Len(s)), c)

\* Optional[str]: None and Some(s)
None == [some |-> FALSE, val |-> <<>>]
Some(s) == [some |-> TRUE, val |-> s]
\* Python truthiness of an Optional[str]
Truthy(o) == o.some /\ o.val # <<>>

----------------------------------------------------------------------------
(* The regular expressions of src/query_test.py:42-58 *)

\* (?=\|\s*\w+|$) at position q
LookAhead(text, q) ==
    \/ /\ q <= Len(text)
       /\ text[q] = "|"
       /\ LET k == SkipWs(text, q + 1)
          IN  k <= Len(text) /\ IsWordStart(text[k])
    \/ q = Len(text) + 1
    \/ q = Len(text) /\ text[q] = NL

\* the character class of "." : everything with re.S, no newline without
Dot(t, dotall) == dotall \/ t # NL

\* \|\s*kw at position i (re.I): the position after the keyword, 0 for no match
CmdHead(text, i, kw) ==
    IF i <= Len(text) /\ text[i] = "|"
    THEN LET j == SkipWs(text, i + 1)
         IN  IF j <= Len(text) /\ Lower(text[j]) = kw THEN j + 1 ELSE 0
    ELSE 0

RECURSIVE LazyFrom(_, _, _)
\* (.+?)(?=...) with the tokens before q taken: the first end >= q, 0 for none
LazyFrom(text, q, dotall) ==
    IF LookAhead(text, q) THEN q
    ELSE IF q <= Len(text) /\ Dot(text[q], dotall) THEN LazyFrom(text, q + 1, dotall)
    ELSE 0

\* (.+?)(?=...) starting at g: at least one character
LazyStart(text, g, dotall) ==
    IF g <= Len(text) /\ Dot(text[g], dotall) THEN LazyFrom(text, g + 1, dotall)
    ELSE 0

RECURSIVE CmdBody(_, _, _, _)
\* \s+(.+?)(?=...) after the keyword at h, \s+ taking k whitespace characters
\* first and fewer on backtracking: <<group start, match end>>, <<0, 0>> for none
CmdBody(text, h, k, dotall) ==
    IF k < 1 THEN <<0, 0>>
    ELSE LET e == LazyStart(text, h + k, dotall)
         IN  IF e # 0 THEN <<h + k, e>> ELSE CmdBody(text, h, k - 1, dotall)

\* \|\s*kw\s+(.+?)(?=\|\s*\w+|$) at position i
CmdMatchAt(text, i, kw, dotall) ==
    LET h == CmdHead(text, i, kw)
    IN  IF h = 0 THEN <<0, 0>>
        ELSE CmdBody(text, h, SkipWs(text, h) - h, dotall)

RECURSIVE CmdFindIter(_, _, _, _)
\* [m.group(1) for m in pat.finditer(text)] from position pos on
CmdFindIter(text, pos, kw, dotall) ==
    IF pos > Len(text) THEN <<>>
    ELSE LET m == CmdMatchAt(text, pos, kw, dotall)
         IN  IF m[2] # 0
             THEN <<SubSeq(text, m[1], m[2] - 1)>> \o CmdFindIter(text, m[2], kw, dotall)
             ELSE CmdFindIter(text, pos + 1, kw, dotall)

\* the end of [^|]+ started at g: the next pipe, or the end of the text
NextPipe(text, g) ==
    LET p == FirstFrom(text, g, "|") IN IF p = 0 THEN Len(text) + 1 ELSE p

RECURSIVE TransBody(_, _, _)
\* \s+([^|]+) after the keyword at h
TransBody(text, h, k) ==
    IF k < 1 THEN <<0, 0>>
    ELSE LET e == NextPipe(text, h + k)
         IN  IF e > h + k THEN <<h + k, e>> ELSE TransBody(text, h, k - 1)

\* RE_TRANSACTION at position i
TransMatchAt(text, i) ==
    LET h == CmdHead(text, i, "transaction")
    IN  IF h = 0 THEN <<0, 0>> ELSE TransBody(text, h, SkipWs(text, h) - h)

RECURSIVE TransFindIter(_, _)
TransFindIter(text, pos) ==
    IF pos > Len(text) THEN <<>>
    ELSE LET m == TransMatchAt(text, pos)
         IN  IF m[2] # 0
             THEN <<SubSeq(text, m[1], m[2] - 1)>> \o TransFindIter(text, m[2])
             ELSE TransFindIter(text, pos + 1)

RECURSIVE JoinBody(_, _, _)
\* \s+(.+?)\[(.+?)\] after the keyword at h (re.S):
\* <<group 1 start, position of "[", position of "]">>, zeros for no match
JoinBody(text, h, k) ==
    IF k < 1 THEN <<0, 0, 0>>
    ELSE LET g == h + k
             b == FirstFrom(text, g + 1, "[")
             c == IF b = 0 THEN 0 ELSE FirstFrom(text, b + 2, "]")
         IN  IF c # 0 THEN <<g, b, c>> ELSE JoinBody(text, h, k - 1)

\* RE_JOIN at position i
JoinMatchAt(text, i) ==
    LET h == CmdHead(text, i, "join")
    IN  IF h = 0 THEN <<0, 0, 0>> ELSE JoinBody(text, h, SkipWs(text, h) - h)

RECURSIVE JoinSpans(_, _)
\* RE_JOIN.finditer(text) from position pos on: the spans of the matches
JoinSpans(text, pos) ==
    IF pos > Len(text) THEN <<>>
    ELSE LET m == JoinMatchAt(text, pos)
         IN  IF m[3] # 0 THEN <<m>> \o JoinSpans(text, m[3] + 1)
             ELSE JoinSpans(text, pos + 1)

\* src/query_test.py:109-110
JoinFindIter(text) ==
    LET spans == JoinSpans(text, 1)
    IN  [i \in DOMAIN spans |->
            [on |-> _norm_ws(SubSeq(text, spans[i][1], spans[i][2] - 1)),
             subsearch |-> _norm_ws(SubSeq(text, spans[i][2] + 1, spans[i][3] - 1))]]

----------------------------------------------------------------------------
(* Field extraction: RE_INDEX, RE_SOURCETYPE, RE_EARLIEST, RE_LATEST *)

RECURSIVE ValueEnd(_, _, _)
\* the end (exclusive) of the greedy value run [class]+ started at k, counting
\* a token whose prefix alone is taken as consumed
ValueEnd(text, k, cls) ==
    IF k <= Len(text) /\ ValWhole(text[k], cls) THEN ValueEnd(text, k + 1, cls)
    ELSE IF k <= Len(text) /\ ValPrefix(text[k], cls) # "" THEN k + 1
    ELSE k

\* the value matched by [class]+ between k and its end e
ValueOf(text, k, e, cls) == [i \in 1..(e - k) |-> ValPrefix(text[k + i - 1], cls)]

\* \s*=\s*("?)([class]+)("?) after a key that ends before position i1:
\* <<value start, value end, match end>>, zeros for no match
KeyValueAt(text, i1, cls, quoted) ==
    LET j == SkipWs(text, i1)
    IN  IF j <= Len(text) /\ text[j] = "="
        THEN LET k0 == SkipWs(text, j + 1)
                 k  == IF quoted /\ k0 <= Len(text) /\ text[k0] = "\""
                       THEN k0 + 1 ELSE k0
                 e  == ValueEnd(text, k, cls)
                 f  == IF quoted /\ e <= Len(text) /\ text[e] = "\""
                       THEN e + 1 ELSE e
             IN  IF e > k THEN <<k, e, f>> ELSE <<0, 0, 0>>
        ELSE <<0, 0, 0>>

\* \bkey\s*=\s*("?)([class]+)("?) at position i (case-sensitive)
KeyMatchAt(text, i, key, cls, quoted) ==
    IF text[i] = key /\ (i = 1 \/ ~IsWordEnd(text[i - 1]))
    THEN KeyValueAt(text, i + 1, cls, quoted)
    ELSE <<0, 0, 0>>

RECURSIVE KeyFindAll(_, _, _, _, _)
\* pattern.findall(text) from position pos on
KeyFindAll(text, pos, key, cls, quoted) ==
    IF pos > Len(text) THEN <<>>
    ELSE LET m == KeyMatchAt(text, pos, key, cls, quoted)
         IN  IF m[2] # 0
             THEN <<ValueOf(text, m[1], m[2], cls)>>
                  \o KeyFindAll(text, m[3], key, cls, quoted)
             ELSE KeyFindAll(text, pos + 1, key, cls, quoted)

\* the group of the last match instead of the first
KeySearch_Last(text, key) ==
    LET all == KeyFindAll(text, 1, key, "time", FALSE)
    IN  IF all = <<>> THEN None ELSE Some(all[Len(all)])

\* pattern.search(text): the first match's group, None for no match
KeySearch(text, key) ==
    LET all == KeyFindAll(text, 1, key, "time", FALSE)
    IN  IF all = <<>> THEN None ELSE Some(all[1])

----------------------------------------------------------------------------
(* parse_spl, src/query_test.py:97-132 *)

\* seg.split()[0].lower() in essential_cmds, for a stripped non-empty segment
FirstIsEssential(seg) ==
    LET n == FirstFrom(seg, 1, SP)
        m == FirstFrom(seg, 1, NL)
        stop == IF n = 0 THEN m ELSE IF m = 0 THEN n ELSE IF n < m THEN n ELSE m
    IN  /\ (stop = 2 \/ (stop = 0 /\ Len(seg) = 1))
        /\ Lower(seg[1]) \in EssentialSet

RECURSIVE OthersOf(_)
\* src/query_test.py:124-130 over the segments after the first pipe
OthersOf(segs) ==
    IF segs = <<>> THEN <<>>
    ELSE LET seg == Strip(segs[1])
         IN  (IF seg # <<>> /\ ~FirstIsEssential(seg) THEN <<seg>> ELSE <<>>)
             \o OthersOf(Tail(segs))

NormAll(groups) == [i \in DOMAIN groups |-> _norm_ws(groups[i])]

parse_spl(s) ==
    LET text == Strip(s)
    IN  [overview |->
            [index      |-> KeyFindAll(text, 1, "index", "index", FALSE),
             sourcetype |-> KeyFindAll(text, 1, "sourcetype", "sourcetype", TRUE),
             earliest   |-> KeySearch(text, "earliest"),
             latest     |-> KeySearch(text, "latest")],
         ops |->
            [joins        |-> JoinFindIter(text),
             search_terms |-> NormAll(CmdFindIter(text, 1, "search", TRUE)),
             evals        |-> NormAll(CmdFindIter(text, 1, "eval", TRUE)),
             transactions |-> NormAll(TransFindIter(text, 1)),
             stats        |-> NormAll(CmdFindIter(text, 1, "stats", TRUE)),
             timecharts   |-> NormAll(CmdFindIter(text, 1, "timechart", TRUE)),
             wheres       |-> NormAll(CmdFindIter(text, 1, "where", TRUE)),
             lookups      |-> NormAll(CmdFindIter(text, 1, "lookup", FALSE)),
             rexes        |-> NormAll(CmdFindIter(text, 1, "rex", FALSE)),
             sorts        |-> NormAll(CmdFindIter(text, 1, "sort", FALSE)),
             dedups       |-> NormAll(CmdFindIter(text, 1, "dedup", FALSE)),
             tables       |-> NormAll(CmdFindIter(text, 1, "table", FALSE)),
             fields_cmds  |-> NormAll(CmdFindIter(text, 1, "fields", FALSE)),
             others       |-> OthersOf(Tail(Split(text, "|")))]]

----------------------------------------------------------------------------
(* infer_intent, src/query_test.py:137-148 *)

\* positions of the tokens of text that satisfy P
Positions(text, P(_)) == {i \in DOMAIN text : P(text[i])}

IsPowershell(t) == Lower(t) = "powershell"
\* sqli|information_schema|OR 1=1|sqlmap; the token (?i)(?<sqlinj> holds "sqli"
IsSqlSignal(t)  == Lower(t) \in {"sqlmap", "(?i)(?<sqlinj>"}
Is7zExe(t)      == Lower(t) = "7z.exe"          \* 7z\.exe|invoke-webrequest|exfil|net_dst

\* event_id\s*=\s*4688.*powershell  (re.I | re.S)
IntentRule1(text) ==
    \E i \in DOMAIN text :
        /\ Lower(text[i]) = "event_id"
        /\ LET j == SkipWs(text, i + 1)
           IN  /\ j <= Len(text) /\ text[j] = "="
               /\ LET k == SkipWs(text, j + 1)
                  IN  /\ k <= Len(text) /\ text[k] = "4688"
                      /\ \E m \in Positions(text, IsPowershell) : m > k

RECURSIVE FirstLower(_, _, _)
\* the first position >= p whose token, lower-cased, is c; 0 when there is none
FirstLower(text, p, c) ==
    IF p > Len(text) THEN 0
    ELSE IF Lower(text[p]) = c THEN p
    ELSE FirstLower(text, p + 1, c)

\* transaction.+4625.+4624.+4688  (re.I | re.S): each .+ takes at least one
\* character, and taking the earliest occurrence of each part loses no match
IntentRule2(text) ==
    LET a == FirstLower(text, 1, "transaction")
        b == IF a = 0 THEN 0 ELSE FirstLower(text, a + 2, "4625")
        c == IF b = 0 THEN 0 ELSE FirstLower(text, b + 2, "4624")
        d == IF c = 0 THEN 0 ELSE FirstLower(text, c + 2, "4688")
    IN  d # 0

\* sqli|information_schema|OR 1=1|sqlmap  (re.I)
IntentRule3(text) == Positions(text, IsSqlSignal) # {}

\* 7z\.exe|invoke-webrequest|exfil|net_dst  (re.I)
IntentRule4(text) == Positions(text, Is7zExe) # {}

\* INTENT_RULES in list order with their labels
INTENT_RULES(text) ==
    <<[hit |-> IntentRule1(text), label |-> "PowerShell execution detection"],
      [hit |-> IntentRule2(text), label |-> "login failure->success then process chain"],
      [hit |-> IntentRule3(text), label |-> "SQLi/auth-bypass attempt detection"],
      [hit |-> IntentRule4(text), label |-> "compression and exfiltration detection"]>>

RECURSIVE FirstHit_Last(_, _)
FirstHit_Last(rules, dflt) ==
    IF rules = <<>> THEN dflt
    ELSE IF rules[Len(rules)].hit THEN rules[Len(rules)].label
    ELSE FirstHit_Last(SubSeq(rules, 1, Len(rules) - 1), dflt)

RECURSIVE FirstHit(_, _)
\* lines 144-148: the loop returns at the first rule whose pattern is found
FirstHit(rules, dflt) ==
    IF rules = <<>> THEN dflt
    ELSE IF rules[1].hit THEN rules[1].label
    ELSE FirstHit(Tail(rules), dflt)

infer_intent(s) == FirstHit(INTENT_RULES(s), "generic log filter/aggregation query")

----------------------------------------------------------------------------
(* summarize_spl and validate_spl, src/query_test.py:153-202 *)

RECURSIVE StrLess(_, _)
\* a < b for Python strings held as token sequences
StrLess(a, b) ==
    IF a = <<>> THEN b # <<>>
    ELSE IF b = <<>> THEN FALSE
    ELSE IF a[1] = b[1] THEN StrLess(Tail(a), Tail(b))
    ELSE TokRank(a[1]) < TokRank(b[1])

RECURSIVE SortSet(_)
\* sorted(S) for a set of strings
SortSet(S) ==
    IF S = {} THEN <<>>
    ELSE LET m == CHOOSE x \in S : \A y \in S \ {x} : StrLess(x, y)
         IN  <<m>> \o SortSet(S \ {m})

\* the values as they were found, a value as often as it was found
SortedSet_NoSet(values) == values

\* sorted(set(values)) for a list of strings
SortedSet(values) == SortSet({values[i] : i \in DOMAIN values})

\* lines 163-174 without the default of lines 175-176
SummarySteps_NoDefault(ops) ==
    (IF ops.search_terms # <<>> THEN << <<"apply base search terms">> >> ELSE <<>>) \o
    (IF ops.evals # <<>> THEN << <<"eval computation">> >> ELSE <<>>) \o
    (IF ops.transactions # <<>> THEN << <<"transaction event linking">> >> ELSE <<>>) \o
    (IF ops.stats # <<>> THEN << <<"stats aggregation">> >> ELSE <<>>) \o
    (IF ops.timecharts # <<>> THEN << <<"timechart aggregation">> >> ELSE <<>>) \o
    (IF ops.joins # <<>> THEN << <<"join + subsearch">> >> ELSE <<>>) \o
    (IF ops.rexes # <<>> THEN << <<"rex extraction">> >> ELSE <<>>) \o
    (IF ops.lookups # <<>> THEN << <<"lookup reference">> >> ELSE <<>>) \o
    (IF ops.sorts # <<>> THEN << <<"sort ordering">> >> ELSE <<>>) \o
    (IF ops.dedups # <<>> THEN << <<"dedup removal">> >> ELSE <<>>) \o
    (IF ops.tables # <<>> \/ ops.fields_cmds # <<>>
     THEN << <<"table/fields output selection">> >> ELSE <<>>)

SummarySteps_LookupFirst(ops) ==
    LET steps ==
            (IF ops.search_terms # <<>> THEN << <<"apply base search terms">> >> ELSE <<>>) \o
            (IF ops.evals # <<>> THEN << <<"eval computation">> >> ELSE <<>>) \o
            (IF ops.transactions # <<>> THEN << <<"transaction event linking">> >> ELSE <<>>) \o
            (IF ops.stats # <<>> THEN << <<"stats aggregation">> >> ELSE <<>>) \o
            (IF ops.timecharts # <<>> THEN << <<"timechart aggregation">> >> ELSE <<>>) \o
            (IF ops.joins # <<>> THEN << <<"join + subsearch">> >> ELSE <<>>) \o
            (IF ops.lookups # <<>> THEN << <<"lookup reference">> >> ELSE <<>>) \o
            (IF ops.rexes # <<>> THEN << <<"rex extraction">> >> ELSE <<>>) \o
            (IF ops.sorts # <<>> THEN << <<"sort ordering">> >> ELSE <<>>) \o
            (IF ops.dedups # <<>> THEN << <<"dedup removal">> >> ELSE <<>>) \o
            (IF ops.tables # <<>> \/ ops.fields_cmds # <<>>
             THEN << <<"table/fields output selection">> >> ELSE <<>>)
    IN  IF steps = <<>> THEN << <<"simple filter/basic search">> >> ELSE steps

\* the step labels of summarize_spl, lines 163-176
SummarySteps(ops) ==
    LET steps ==
            (IF ops.search_terms # <<>> THEN << <<"apply base search terms">> >> ELSE <<>>) \o
            (IF ops.evals # <<>> THEN << <<"eval computation">> >> ELSE <<>>) \o
            (IF ops.transactions # <<>> THEN << <<"transaction event linking">> >> ELSE <<>>) \o
            (IF ops.stats # <<>> THEN << <<"stats aggregation">> >> ELSE <<>>) \o
            (IF ops.timecharts # <<>> THEN << <<"timechart aggregation">> >> ELSE <<>>) \o
            (IF ops.joins # <<>> THEN << <<"join + subsearch">> >> ELSE <<>>) \o
            (IF ops.rexes # <<>> THEN << <<"rex extraction">> >> ELSE <<>>) \o
            (IF ops.lookups # <<>> THEN << <<"lookup reference">> >> ELSE <<>>) \o
            (IF ops.sorts # <<>> THEN << <<"sort ordering">> >> ELSE <<>>) \o
            (IF ops.dedups # <<>> THEN << <<"dedup removal">> >> ELSE <<>>) \o
            (IF ops.tables # <<>> \/ ops.fields_cmds # <<>>
             THEN << <<"table/fields output selection">> >> ELSE <<>>)
    IN  IF steps = <<>> THEN << <<"simple filter/basic search">> >> ELSE steps

summarize_spl(p, s) ==
    LET ov == p.overview
        srcs ==
            (IF ov.index # <<>>
             THEN << <<"index=">> \o Join(SortedSet(ov.index), <<",">>) >> ELSE <<>>) \o
            (IF ov.sourcetype # <<>>
             THEN << <<"sourcetype=">> \o Join(SortedSet(ov.sourcetype), <<",">>) >>
             ELSE <<>>)
        src_txt == IF srcs # <<>> THEN Join(srcs, <<" / ">>)
                   ELSE <<"data source unspecified">>
    IN  <<"This query reads from ">> \o src_txt \o <<" and performs ">>
        \o Join(SummarySteps(p.ops), <<" -> ">>)
        \o <<". Intent: ", infer_intent(s)>>

\* line 199 with the pattern (>\s*\d|<\s*\d): only strict comparisons count
HasNumericStrict(w) ==
    \E i \in DOMAIN w :
        /\ w[i] \in {">", "<"}
        /\ LET k == SkipWs(w, i + 1) IN k <= Len(w) /\ IsDigitStart(w[k])

\* re.search(r"(>=|<=|>\s*\d|<\s*\d|=\s*\d)", w), line 199
HasNumeric(w) ==
    \E i \in DOMAIN w :
        \/ w[i] \in {">=", "<="}
        \/ /\ w[i] \in {">", "<"} /\ i < Len(w) /\ w[i + 1] = "="
        \/ /\ w[i] \in {">", "<", "=", ">=", "<="}
           /\ LET k == SkipWs(w, i + 1) IN k <= Len(w) /\ IsDigitStart(w[k])

W_SOURCE == "data source (index/sourcetype) unspecified"
W_TIME == "time range (earliest/latest) unspecified -> large search risk"
W_JOIN == "join used -> may degrade at scale"
W_TRANSACTION == "transaction used -> resource-intensive"
W_OUTPUT == "output fields (table/fields) unspecified"
W_WHERE == "no numeric threshold in where condition"

\* validate_spl with line 190 written with "or": a window with one end missing
\* is reported as missing
validate_spl_TimeOr(p) ==
    LET ov == p.overview
        ops == p.ops
    IN  (IF ov.index = <<>> /\ ov.sourcetype = <<>> THEN <<W_SOURCE>> ELSE <<>>) \o
        (IF ~ov.earliest.some \/ ~ov.latest.some THEN <<W_TIME>> ELSE <<>>) \o
        (IF ops.joins # <<>> THEN <<W_JOIN>> ELSE <<>>) \o
        (IF ops.transactions # <<>> THEN <<W_TRANSACTION>> ELSE <<>>) \o
        (IF ~(ops.tables # <<>> \/ ops.fields_cmds # <<>>) THEN <<W_OUTPUT>> ELSE <<>>) \o
        (IF ops.wheres # <<>> /\ ~(\E i \in DOMAIN ops.wheres : HasNumeric(ops.wheres[i]))
         THEN <<W_WHERE>> ELSE <<>>)

validate_spl(p) ==
    LET ov == p.overview
        ops == p.ops
    IN  (IF ov.index = <<>> /\ ov.sourcetype = <<>> THEN <<W_SOURCE>> ELSE <<>>) \o
        (IF ~ov.earliest.some /\ ~ov.latest.some THEN <<W_TIME>> ELSE <<>>) \o
        (IF ops.joins # <<>> THEN <<W_JOIN>> ELSE <<>>) \o
        (IF ops.transactions # <<>> THEN <<W_TRANSACTION>> ELSE <<>>) \o
        (IF ~(ops.tables # <<>> \/ ops.fields_cmds # <<>>) THEN <<W_OUTPUT>> ELSE <<>>) \o
        (IF ops.wheres # <<>> /\ ~(\E i \in DOMAIN ops.wheres : HasNumeric(ops.wheres[i]))
         THEN <<W_WHERE>> ELSE <<>>)

----------------------------------------------------------------------------
(* _mk_md_base, src/query_test.py:207-260 *)

NOT_SPECIFIED == "(not specified)"

\* ", ".join(sorted(set(values))) or "(not specified)", lines 212-213
SourceList_NoPlaceholder(values) == Join(SortedSet(values), <<", ">>)

SourceList(values) ==
    IF values = <<>> THEN <<NOT_SPECIFIED>> ELSE Join(SortedSet(values), <<", ">>)

RECURSIVE StepLines(_, _)
\* f"- **{name}**: {it}" for each item, lines 231-232
StepLines(name, items) ==
    IF items = <<>> THEN <<>>
    ELSE <<(<<"- **", name, "**: ">> \o items[1])>> \o StepLines(name, Tail(items))

JoinItems(joins) ==
    [i \in DOMAIN joins |->
        <<"on ">> \o joins[i].on \o <<" | subsearch: ">> \o joins[i].subsearch]

\* the steps list of lines 223-232
MdSteps(ops) ==
    StepLines("eval", ops.evals) \o StepLines("transaction", ops.transactions) \o
    StepLines("stats", ops.stats) \o StepLines("timechart", ops.timecharts) \o
    StepLines("join", JoinItems(ops.joins)) \o StepLines("lookup", ops.lookups) \o
    StepLines("rex", ops.rexes) \o StepLines("sort", ops.sorts) \o
    StepLines("dedup", ops.dedups) \o
    StepLines("table", IF ops.tables # <<>> THEN ops.tables ELSE ops.fields_cmds) \o
    StepLines("other", ops.others)

\* transaction[^|]*maxspan\s*=\s*([\w:]+) with re.I, line 235: the group of the
\* match, None for no match.  The leftmost "transaction" that has a match wins,
\* and the greedy [^|]* takes the last "maxspan" before the next pipe.
MaxspanSearch(text) ==
    LET hit(a, b) ==
            /\ Lower(text[a]) = "transaction"
            /\ Lower(text[b]) = "maxspan"
            /\ a < b
            /\ \A c \in a..b : text[c] # "|"
            /\ KeyValueAt(text, b + 1, "span", FALSE)[2] # 0
        starts == {a \in DOMAIN text : \E b \in DOMAIN text : hit(a, b)}
    IN  IF starts = {} THEN None
        ELSE LET a == CHOOSE x \in starts : \A y \in starts : x <= y
                 b == CHOOSE x \in DOMAIN text :
                        hit(a, x) /\ \A y \in DOMAIN text : hit(a, y) => y <= x
                 m == KeyValueAt(text, b + 1, "span", FALSE)
             IN  Some(ValueOf(text, m[1], m[2], "span"))

\* re.search(r">=|<=|>\s|<\s|=\s*\d", w), line 238
HasThreshold(w) ==
    \E i \in DOMAIN w :
        \/ w[i] \in {">=", "<="}
        \/ /\ w[i] \in {">", "<"} /\ i < Len(w) /\ w[i + 1] = "="
        \/ /\ w[i] \in {">", "<"} /\ i < Len(w) /\ IsSpace(w[i + 1])
        \/ /\ w[i] \in {"=", ">=", "<="}
           /\ LET k == SkipWs(w, i + 1) IN k <= Len(w) /\ IsDigitStart(w[k])

\* re.search(r"count\s+as\s+\w+", s, re.I), line 241
HasCountAs(st) ==
    \E i \in DOMAIN st :
        /\ Lower(st[i]) = "count"
        /\ i < Len(st) /\ IsSpace(st[i + 1])
        /\ LET j == SkipWs(st, i + 1)
           IN  /\ j <= Len(st) /\ Lower(st[j]) = "as"
               /\ j < Len(st) /\ IsSpace(st[j + 1])
               /\ LET k == SkipWs(st, j + 1)
                  IN  k <= Len(st) /\ IsWordStart(st[k])

RECURSIVE WhereTuning(_)
WhereTuning(ws) ==
    IF ws = <<>> THEN <<>>
    ELSE (IF HasThreshold(ws[1]) THEN <<(<<"where threshold check: ">> \o ws[1])>>
          ELSE <<>>) \o WhereTuning(Tail(ws))

RECURSIVE StatsTuning(_)
StatsTuning(sts) ==
    IF sts = <<>> THEN <<>>
    ELSE (IF HasCountAs(sts[1]) THEN << <<"review stats-based count threshold">> >>
          ELSE <<>>) \o StatsTuning(Tail(sts))

\* the tuning list of lines 234-242
MdTuning(ops, s) ==
    LET m == MaxspanSearch(s)
    IN  (IF m.some
         THEN <<(<<"transaction maxspan=">> \o m.val \o <<" (adjust to environment)">>)>>
         ELSE <<>>)
        \o WhereTuning(ops.wheres) \o StatsTuning(ops.stats)

IsSqlFp(t) == Lower(t) \in {"sqlmap", "union"}     \* sqlmap|OR 1=1|UNION
Is7z(t)    == Lower(t) = "7z.exe"                  \* 7z|invoke-webrequest|wget|curl

\* the false-positive list of lines 244-248
MdFp(s) ==
    LET fp ==
            (IF Positions(s, IsPowershell) # {}
             THEN << <<"PowerShell run by admin scripts">> >> ELSE <<>>) \o
            (IF Positions(s, IsSqlFp) # {}
             THEN << <<"mock scan/QA test traffic">> >> ELSE <<>>) \o
            (IF Positions(s, Is7z) # {}
             THEN << <<"confusion with backup/log collection">> >> ELSE <<>>)
    IN  IF fp = <<>> THEN << <<"possible confusion with automation/batch jobs">> >>
        ELSE fp

\* line 250
OutFields(ops) ==
    IF ops.tables # <<>> \/ ops.fields_cmds # <<>>
    THEN Join(IF ops.tables # <<>> THEN SubSeq(ops.tables, 1, 1)
              ELSE SubSeq(ops.fields_cmds, 1, 1), <<", ">>)
    ELSE <<"(table/fields unspecified)">>

_mk_md_base(p, s) ==
    LET ov == p.overview
        ops == p.ops
        twin == (IF ov.earliest.some THEN <<(<<"earliest=">> \o ov.earliest.val)>>
                 ELSE <<>>) \o
                (IF ov.latest.some THEN <<(<<"latest=">> \o ov.latest.val)>> ELSE <<>>)
        twin_str == IF twin # <<>> THEN Join(twin, <<", ">>) ELSE <<NOT_SPECIFIED>>
        base_filters ==
            (IF ops.search_terms # <<>> THEN <<ops.search_terms[1]>> ELSE <<>>)
            \o ops.wheres
        steps == MdSteps(ops)
        tuning == MdTuning(ops, s)
        md == <<
            <<NineHeadings[2], NL, "- ", infer_intent(s)>>,
            <<NineHeadings[3], NL, "- index: ">> \o SourceList(ov.index)
                \o <<NL, "- sourcetype: ">> \o SourceList(ov.sourcetype)
                \o <<NL, "- time range: ">> \o twin_str,
            <<NineHeadings[4], NL, "- ">>
                \o (IF base_filters # <<>> THEN Join(base_filters, <<NL, "- ">>)
                    ELSE <<"(no search terms/where)">>),
            <<NineHeadings[5], NL>>
                \o (IF steps # <<>> THEN Join(steps, <<NL>>)
                    ELSE <<"- (no operation detected)">>),
            <<NineHeadings[6], NL, "- ">>
                \o (IF tuning # <<>> THEN Join(tuning, <<NL, "- ">>)
                    ELSE <<"(no particular threshold)">>),
            <<NineHeadings[7], NL, "- ">> \o Join(MdFp(s), <<NL, "- ">>),
            <<NineHeadings[8], NL, "- ">> \o OutFields(ops) >>
    IN  Join(md, <<NL, NL>>)

----------------------------------------------------------------------------
(* explain_spl_to_markdown_full, src/query_test.py:357-369 *)

\* lines 362-369: the document from the summary, the base document and the warnings
FullDoc(sum, base, warns) ==
    Join(<< <<NineHeadings[1], NL, "- ">> \o sum,
            base,
            IF warns # <<>>
            THEN <<NineHeadings[9], NL, "- ">>
                 \o Join([i \in DOMAIN warns |-> <<warns[i]>>], <<NL, "- ">>)
            ELSE <<NineHeadings[9], NL, "- ", "no special warnings">> >>,
         <<NL, NL>>)

explain_spl_to_markdown_full(s) ==
    LET p == parse_spl(s)
    IN  FullDoc(summarize_spl(p, s), _mk_md_base(p, s), validate_spl(p))

----------------------------------------------------------------------------
(* Inputs of the rule pipeline *)

\* | join host,user [search foo | stats count]
JoinClause ==
    <<"|", SP, "join", SP, "host,user", SP, "[", "search", SP, "foo", SP, "|", SP,
      "stats", SP, "count", "]">>

\* | join k [search x [search y] k]: a subsearch with nested brackets
NestedJoin ==
    <<"|", SP, "join", SP, "k", SP, "[", "search", SP, "x", SP, "[", "search", SP,
      "y", "]", SP, "k", "]">>

Pieces ==
    { <<"|">>, <<SP>>, <<NL>>, <<"x">>, <<"[">>, <<"]">>,
      <<"|", SP, "sort", SP, "x">>,
      <<"|", SP, "stats", SP, "count">>,
      <<"|", SP, "foo", SP, "y">>,
      <<"|", SP, "dedup">>,
      <<"|", "join", SP>>,
      <<"index", "=", "main">>,
      <<NineHeadings[9]>>,
      JoinClause, NestedJoin }

RECURSIVE Concats(_)
\* the concatenations of at most n pieces
Concats(n) ==
    IF n = 0 THEN {<<>>}
    ELSE LET shorter == Concats(n - 1)
         IN  shorter \cup {q \o p : q \in shorter, p \in Pieces}

Queries == Concats(MaxPieces)

----------------------------------------------------------------------------
(* The rule pipeline run on its own: explain_spl_to_markdown_full(spl) *)

NoParse == [overview |-> <<>>, ops |-> <<>>]

Unused == invs = <<>> /\ made = <<>> /\ cases = <<>> /\ files = <<>> /\ marked = {}

Idle ==
    /\ Unused
    /\ prefer_gpt = FALSE /\ include_raw_query = FALSE /\ openai = FALSE
    /\ used_engine = "RULE" /\ llm_error = None /\ out = None
    /\ e1 = "" /\ e2 = "" /\ api_calls = <<>> /\ llm_entries = 0 /\ rule_runs = 0

RuleInit ==
    /\ impl = "rule"
    /\ pc = "parse"
    /\ spl \in Queries
    /\ parsed = NoParse /\ summary = <<>> /\ base_md = <<>> /\ warnings = <<>>
    /\ result = None
    /\ Idle

\* line 358
RuleParse ==
    /\ impl = "rule" /\ pc = "parse"
    /\ parsed' = parse_spl(spl)
    /\ pc' = "summarize"
    /\ UNCHANGED <<files, marked, invs, made, cases, impl, spl, prefer_gpt, include_raw_query, openai, summary, base_md,
                   warnings, used_engine, llm_error, out, e1, e2, api_calls,
                   llm_entries, rule_runs, result>>

\* lines 359-360
RuleSummarize ==
    /\ impl = "rule" /\ pc = "summarize"
    /\ summary' = summarize_spl(parsed, spl)
    /\ base_md' = _mk_md_base(parsed, spl)
    /\ pc' = "validate"
    /\ UNCHANGED <<files, marked, invs, made, cases, impl, spl, prefer_gpt, include_raw_query, openai, parsed, warnings,
                   used_engine, llm_error, out, e1, e2, api_calls, llm_entries,
                   rule_runs, result>>

\* line 361
RuleValidate ==
    /\ impl = "rule" /\ pc = "validate"
    /\ warnings' = validate_spl(parsed)
    /\ pc' = "assemble"
    /\ UNCHANGED <<files, marked, invs, made, cases, impl, spl, prefer_gpt, include_raw_query, openai, parsed, summary,
                   base_md, used_engine, llm_error, out, e1, e2, api_calls,
                   llm_entries, rule_runs, result>>

\* lines 362-369
RuleAssemble ==
    /\ impl = "rule" /\ pc = "assemble"
    /\ result' = Some(FullDoc(summary, base_md, warnings))
    /\ rule_runs' = rule_runs + 1
    /\ pc' = "done"
    /\ UNCHANGED <<files, marked, invs, made, cases, impl, spl, prefer_gpt, include_raw_query, openai, parsed, summary,
                   base_md, warnings, used_engine, llm_error, out, e1, e2, api_calls,
                   llm_entries>>

RuleNext == RuleParse \/ RuleSummarize \/ RuleValidate \/ RuleAssemble

SpecRule == RuleInit /\ [][RuleNext]_vars

----------------------------------------------------------------------------
(* The rule pipeline on queries built from clauses that matter to validate_spl *)

\* index=main sourcetype="web:access" earliest=-24h latest=now
\*   | rex field=uri "(?i)(?<sqlinj>UNION|SELECT)"
\*   | stats count AS total BY src_ip | where total>=5 | table _time, src_ip, total
E2EQuery ==
    <<"index", "=", "main", SP, "sourcetype", "=", "\"", "web:access", "\"", SP,
      "earliest", "=", "-24h", SP, "latest", "=", "now", SP,
      "|", SP, "rex", SP, "field", "=", "uri", SP,
          "\"", "(?i)(?<sqlinj>", "UNION", "|", "SELECT", ")", "\"", SP,
      "|", SP, "stats", SP, "count", SP, "AS", SP, "total", SP, "BY", SP, "src_ip", SP,
      "|", SP, "where", SP, "total", ">=", "5", SP,
      "|", SP, "table", SP, "_time", ",", SP, "src_ip", ",", SP, "total">>

\* the token earliest=-24h
EarliestToken == <<"earliest", "=", "-24h">>

\* clauses a query is made of, in the order they are written in a query
WarnClauses ==
    << <<"index", "=", "main">>,
       <<"sourcetype", "=", "\"", "web:access", "\"">>,
       EarliestToken,
       <<"latest", "=", "now">>,
       <<"|", SP, "join", SP, "k", SP, "[", "search", SP, "x", "]">>,
       <<"|", SP, "transaction", SP, "host">>,
       <<"|", SP, "where", SP, "x">>,
       <<"|", SP, "where", SP, "total", ">=", "5">>,
       <<"|", SP, "fields", SP, "x">>,
       <<"|", SP, "table", SP, "x">>,
       <<"|", SP, "table">>,
       <<"|", SP, "where", SP, "x", SP, ">", SP, "y">> >>

\* the clauses chosen by a set of positions, separated by one space
ClausesOf(S) ==
    LET at == SelectSeq([i \in DOMAIN WarnClauses |-> i], LAMBDA i : i \in S)
    IN  Join([k \in DOMAIN at |-> WarnClauses[at[k]]], <<SP>>)

WarnQueries == {ClausesOf(S) : S \in SUBSET DOMAIN WarnClauses} \cup {E2EQuery}

WarnInit ==
    /\ impl = "rule"
    /\ pc = "parse"
    /\ spl \in WarnQueries
    /\ parsed = NoParse /\ summary = <<>> /\ base_md = <<>> /\ warnings = <<>>
    /\ result = None
    /\ Idle

SpecWarn == WarnInit /\ [][RuleNext]_vars

----------------------------------------------------------------------------
(* The rule pipeline on sequences of commands, and on texts with intent signals *)

\* a query of commands is a concatenation of at most MaxCmds pieces
MaxCmds == 3

\* a text with intent signals is a concatenation of at most MaxSignals pieces
MaxSignals == 3

\* | kw x
Cmd(kw) == <<"|", SP, kw, SP, "x">>

\* one command of each recognized keyword, a command with another keyword, a
\* plain word and whitespace
CmdPieces ==
    ({Cmd(essential_cmds[i]) : i \in DOMAIN essential_cmds} \ {Cmd("join")})
    \cup { <<"|", SP, "join", SP, "k", SP, "[", "x", "]">>,
           <<"|", SP, "foo", SP, "y">>, <<"x">>, <<SP>>, <<NL>> }

\* the pieces of a text with intent signals: one piece for each rule of
\* INTENT_RULES, pieces that hold only a part of a signal, and a newline
SignalPieces ==
    { <<"event_id", "=", "4688", SP, "powershell", SP>>,
      <<"event_id", "=", "4688", SP>>,
      <<"powershell", SP>>,
      <<"|", SP, "transaction", SP, "4625", SP, "4624", SP, "4688", SP>>,
      <<"|", SP, "transaction", SP, "4624", SP, "4625", SP>>,
      <<"sqlmap", SP>>,
      <<"7z.exe", SP>>,
      <<"x", SP>>,
      <<NL>> }

RECURSIVE ConcatsOf(_, _)
\* the concatenations of at most n pieces of P
ConcatsOf(P, n) ==
    IF n = 0 THEN {<<>>}
    ELSE LET shorter == ConcatsOf(P, n - 1)
         IN  shorter \cup {q \o p : q \in shorter, p \in P}

CmdQueries == ConcatsOf(CmdPieces, MaxCmds)

SignalQueries == ConcatsOf(SignalPieces, MaxSignals)

CmdInit ==
    /\ impl = "rule"
    /\ pc = "parse"
    /\ spl \in CmdQueries
    /\ parsed = NoParse /\ summary = <<>> /\ base_md = <<>> /\ warnings = <<>>
    /\ result = None
    /\ Idle

SpecCmd == CmdInit /\ [][RuleNext]_vars

SignalInit ==
    /\ impl = "rule"
    /\ pc = "parse"
    /\ spl \in SignalQueries
    /\ parsed = NoParse /\ summary = <<>> /\ base_md = <<>> /\ warnings = <<>>
    /\ result = None
    /\ Idle

SpecSignal == SignalInit /\ [][RuleNext]_vars

----------------------------------------------------------------------------
(* The rule pipeline on texts with several key=value tokens, and on pipe chains *)
(* whose segments have different bodies                                       *)

\* the number of parts a text is put together from
MaxParts == 3

\* index, sourcetype, earliest and latest tokens with different values, one of them
\* quoted, in the base segment, in a later segment and in a subsearch
KeyPieces ==
    { <<"earliest", "=", "-24h", SP>>,
      <<"earliest", "=", "now", SP>>,
      <<"earliest", "=", "\"", "-24h", "\"", SP>>,
      <<"latest", "=", "now", SP>>,
      <<"latest", "=", "5", SP>>,
      <<"index", "=", "main", SP>>,
      <<"index", "=", "x", SP>>,
      <<"sourcetype", "=", "\"", "web:access", "\"", SP>>,
      <<"sourcetype", "=", "x", SP>>,
      <<"|", SP, "search", SP, "index", "=", "k", SP>>,
      <<"|", SP, "join", SP, "k", SP, "[", "search", SP, "index", "=", "y", SP,
        "sourcetype", "=", "x", "]", SP>> }

\* segments of one category with different bodies, table and fields segments, and
\* segments of no category
OrderPieces ==
    { <<"|", SP, "sort", SP, "x">>, <<"|", SP, "sort", SP, "y">>,
      <<"|", SP, "table", SP, "x">>, <<"|", SP, "table", SP, "y">>,
      <<"|", SP, "fields", SP, "k">>, <<"|", SP, "fields", SP, "host">>,
      <<"|", SP, "foo", SP, "x">>, <<"|", SP, "foo", SP, "y">>,
      <<"|", SP, "table">> }

PartQueries == ConcatsOf(KeyPieces, MaxParts) \cup ConcatsOf(OrderPieces, MaxParts)

PartsInit ==
    /\ impl = "rule"
    /\ pc = "parse"
    /\ spl \in PartQueries
    /\ parsed = NoParse /\ summary = <<>> /\ base_md = <<>> /\ warnings = <<>>
    /\ result = None
    /\ Idle

SpecParts == PartsInit /\ [][RuleNext]_vars

----------------------------------------------------------------------------
(* Several invocations of explain_spl_to_markdown_full at once *)

\* the callers that run explain_spl_to_markdown_full at the same time
Callers == {"a", "b"}

\* query_test.py lines 70-84: every field of SplOps is declared with
\* field(default_factory=list), so SplOps() (line 100) holds new empty lists,
\* whatever the instances constructed before it hold
NewSplOps_Shared(prev) ==
    IF prev = <<>>
    THEN [f \in DOMAIN parse_spl(<<>>).ops |-> <<>>]
    ELSE prev[Len(prev)]

NewSplOps(prev) == [f \in DOMAIN parse_spl(<<>>).ops |-> <<>>]

\* lines 109-130: what parse_spl finds is appended to the lists of its instance
OpsFilled(fresh, found) == [f \in DOMAIN found |-> fresh[f] \o found[f]]

PairQueries == {ClausesOf(S) : S \in SUBSET {1, 5, 11}} \cup {E2EQuery}

\* an invocation that has received its argument and has not run a line yet
Called(q) ==
    [pc |-> "parse", spl |-> q, parsed |-> NoParse, summary |-> <<>>,
     base_md |-> <<>>, warnings |-> <<>>, result |-> None]

PairInit ==
    /\ impl = "pair" /\ pc = "pair" /\ spl = <<>>
    /\ parsed = NoParse /\ summary = <<>> /\ base_md = <<>> /\ warnings = <<>>
    /\ result = None
    /\ prefer_gpt = FALSE /\ include_raw_query = FALSE /\ openai = FALSE
    /\ used_engine = "RULE" /\ llm_error = None /\ out = None
    /\ e1 = "" /\ e2 = "" /\ api_calls = <<>> /\ llm_entries = 0 /\ rule_runs = 0
    /\ cases = <<>>
    /\ made = <<>> /\ files = <<>> /\ marked = {}
    /\ invs \in [Callers -> {Called(q) : q \in PairQueries}]

\* the state of the single invocation, which the concurrent ones never touch
SingleVars ==
    <<impl, pc, spl, prefer_gpt, include_raw_query, openai, parsed, summary, base_md,
      warnings, used_engine, llm_error, out, e1, e2, api_calls, llm_entries,
      rule_runs, result>>

\* line 358, with the construction of SplOps inside parse_spl (line 100)
PairParse(c) ==
    /\ impl = "pair" /\ invs[c].pc = "parse"
    /\ LET found == parse_spl(invs[c].spl)
           ops   == OpsFilled(NewSplOps(made), found.ops)
       IN  /\ invs' = [invs EXCEPT ![c].parsed = [overview |-> found.overview, ops |-> ops],
                                   ![c].pc = "summarize"]
           /\ made' = Append(made, ops)
    /\ UNCHANGED <<cases, SingleVars, files, marked>>

\* lines 359-360
PairSummarize(c) ==
    /\ impl = "pair" /\ invs[c].pc = "summarize"
    /\ invs' = [invs EXCEPT ![c].summary = summarize_spl(invs[c].parsed, invs[c].spl),
                            ![c].base_md = _mk_md_base(invs[c].parsed, invs[c].spl),
                            ![c].pc = "validate"]
    /\ UNCHANGED <<made, cases, SingleVars, files, marked>>

\* line 361
PairValidate(c) ==
    /\ impl = "pair" /\ invs[c].pc = "validate"
    /\ invs' = [invs EXCEPT ![c].warnings = validate_spl(invs[c].parsed),
                            ![c].pc = "assemble"]
    /\ UNCHANGED <<made, cases, SingleVars, files, marked>>

\* lines 362-369
PairAssemble(c) ==
    /\ impl = "pair" /\ invs[c].pc = "assemble"
    /\ invs' = [invs EXCEPT
                  ![c].result = Some(FullDoc(invs[c].summary, invs[c].base_md,
                                             invs[c].warnings)),
                  ![c].pc = "done"]
    /\ UNCHANGED <<made, cases, SingleVars, files, marked>>

PairNext ==
    \E c \in Callers :
        PairParse(c) \/ PairSummarize(c) \/ PairValidate(c) \/ PairAssemble(c)

SpecPair == PairInit /\ [][PairNext]_vars

----------------------------------------------------------------------------
(* CaseLibraryManager, src/front/src/case_library_manager.py *)

\* add_case is modelled while the library holds fewer cases than this
MaxCases == 3

\* what dict.get gives for a key the dict does not hold
NoValue == "<None>"

\* "not case.get('id')": the key is missing or its value is empty
NoId(c) == c.id \in {NoValue, ""}

\* the values uuid.uuid4() can give; that it gives the id of a stored case, or an id
\* a caller writes, has no probability worth the name and is left out
Uuids == {"u1", "u2", "u3", "u4"}

IdsOf(stored) == {stored[i].id : i \in DOMAIN stored}

RECURSIVE Repaired(_, _)
\* lines 44-48 of load_cases: every stored case without an id gets a new one
Repaired(stored, taken) ==
    IF stored = <<>> THEN <<>>
    ELSE IF NoId(stored[1])
         THEN LET u == CHOOSE x \in Uuids : x \notin taken
              IN  <<[stored[1] EXCEPT !.id = u]>>
                  \o Repaired(Tail(stored), taken \cup {u})
         ELSE <<stored[1]>> \o Repaired(Tail(stored), taken)

\* lines 32-55: the cases of the file, [] for a missing or an empty file; the list
\* is written back (lines 50-51) when a case had to be given an id
load_cases(stored) == Repaired(stored, IdsOf(stored))

\* lines 59-72 without the test of the title (line 67)
add_case_IdOnly(stored, scenario_data, u) ==
    LET loaded == load_cases(stored)
        record == IF NoId(scenario_data) THEN [scenario_data EXCEPT !.id = u]
                  ELSE scenario_data
    IN  IF \E i \in DOMAIN loaded : loaded[i].id = record.id
        THEN [ret |-> FALSE, file |-> loaded, record |-> record]
        ELSE [ret |-> TRUE, file |-> Append(loaded, record), record |-> record]

\* lines 57-72: the value returned, the content of the file after the call and the
\* caller's record after the call (line 62 writes the new id into it); u is what
\* uuid4 gives when it is asked
add_case(stored, scenario_data, u) ==
    LET loaded == load_cases(stored)
        record == IF NoId(scenario_data) THEN [scenario_data EXCEPT !.id = u]
                  ELSE scenario_data
    IN  IF \E i \in DOMAIN loaded : loaded[i].id = record.id
        THEN [ret |-> FALSE, file |-> loaded, record |-> record]
        ELSE IF \E i \in DOMAIN loaded : loaded[i].title = record.title
        THEN [ret |-> FALSE, file |-> loaded, record |-> record]
        ELSE [ret |-> TRUE, file |-> Append(loaded, record), record |-> record]

\* the records the callers hand to add_case: with and without an id, with and
\* without a title
CaseRecords == [id : {NoValue, "", "a", "b"}, title : {NoValue, "t1", "t2"}]

CasesInit ==
    /\ impl = "cases" /\ pc = "cases" /\ spl = <<>>
    /\ parsed = NoParse /\ summary = <<>> /\ base_md = <<>> /\ warnings = <<>>
    /\ result = None
    /\ prefer_gpt = FALSE /\ include_raw_query = FALSE /\ openai = FALSE
    /\ used_engine = "RULE" /\ llm_error = None /\ out = None
    /\ e1 = "" /\ e2 = "" /\ api_calls = <<>> /\ llm_entries = 0 /\ rule_runs = 0
    /\ invs = <<>> /\ made = <<>> /\ files = <<>> /\ marked = {}
    /\ cases = <<>>

\* one call of add_case, lines 57-72
AddCase ==
    /\ impl = "cases" /\ Len(cases) < MaxCases
    /\ \E scenario_data \in CaseRecords, u \in Uuids \ IdsOf(cases) :
          LET r == add_case(cases, scenario_data, u)
          IN  /\ cases' = r.file
              /\ result' = [kind |-> "add_case", ret |-> r.ret, given |-> scenario_data,
                            record |-> r.record]
    /\ UNCHANGED <<files, marked, invs, made, impl, pc, spl, prefer_gpt, include_raw_query, openai,
                   parsed, summary, base_md, warnings, used_engine, llm_error, out,
                   e1, e2, api_calls, llm_entries, rule_runs>>

SpecCases == CasesInit /\ [][AddCase]_vars

----------------------------------------------------------------------------
(* Two add_case calls of one user at the same time *)

\* a stored case and the records of the two callers: distinct ids (or none, to be
\* given by uuid4) and distinct titles
StoredBefore == {<<>>, <<[id |-> "c", title |-> "t0"]>>}

RacePairs ==
    {f \in [Callers -> CaseRecords] :
        /\ f["a"].title # f["b"].title
        /\ f["a"].id # "" /\ f["b"].id # ""
        /\ (f["a"].id = f["b"].id => f["a"].id = NoValue)}

RaceInit ==
    /\ impl = "race" /\ pc = "race" /\ spl = <<>>
    /\ parsed = NoParse /\ summary = <<>> /\ base_md = <<>> /\ warnings = <<>>
    /\ result = None
    /\ prefer_gpt = FALSE /\ include_raw_query = FALSE /\ openai = FALSE
    /\ used_engine = "RULE" /\ llm_error = None /\ out = None
    /\ e1 = "" /\ e2 = "" /\ api_calls = <<>> /\ llm_entries = 0 /\ rule_runs = 0
    /\ made = <<>> /\ files = <<>> /\ marked = {}
    /\ cases \in StoredBefore
    /\ \E f \in RacePairs :
          invs = [c \in Callers |->
                    [pc |-> "load", record |-> f[c], list |-> <<>>, ret |-> FALSE]]

\* lines 59-70: load_cases reads the file; the id, the two tests and the append work
\* on the list that was read; a duplicate returns False at once
AddLoad(c) ==
    /\ impl = "race" /\ invs[c].pc = "load"
    /\ \E u \in Uuids \ (IdsOf(cases) \cup {invs[d].record.id : d \in Callers}) :
          LET r == add_case(cases, invs[c].record, u)
          IN  invs' = [invs EXCEPT ![c].record = r.record,
                                   ![c].list = r.file,
                                   ![c].pc = IF r.ret THEN "save" ELSE "done"]
    /\ UNCHANGED <<made, cases, SingleVars, files, marked>>

\* lines 71-72: _save_cases writes the whole list of the call over the file; the call
\* returns True
AddSave(c) ==
    /\ impl = "race" /\ invs[c].pc = "save"
    /\ cases' = invs[c].list
    /\ invs' = [invs EXCEPT ![c].ret = TRUE, ![c].pc = "done"]
    /\ UNCHANGED <<made, SingleVars, files, marked>>

RaceNext == \E c \in Callers : AddLoad(c) \/ AddSave(c)

SpecRace == RaceInit /\ [][RaceNext]_vars

(***************************************************************************)
(* The data directory of the front end: one library file and one progress *)
(* file per user, src/front/src/case_library_manager.py and               *)
(* src/front/src/progress_manager.py                                       *)
(***************************************************************************)

\* c.isalnum() or c in (' ', '_'): the characters the file name keeps
KeptChar(c) == c \notin {".", "/"}

\* case_library_manager.py lines 15-18 and progress_manager.py lines 15-16: the part
\* of the file name that comes from the user identifier
SafeUserId(user_id) ==
    LET kept == SelectSeq(user_id, KeptChar)
        safe_user_id == SubSeq(kept, 1, SkipWsBack(kept, Len(kept)))
    IN  IF safe_user_id = <<>> THEN <<"default_user">> ELSE safe_user_id

\* the user identifiers of the model, as sequences of characters ("default_user" is
\* one run of kept characters)
UserIds == {<<>>, <<"default_user">>, <<"a">>, <<"a", ".">>}

ScenarioIds == {"", "s1", "s2"}

StoreRecords == {[id |-> "a", title |-> "t1"], [id |-> "b", title |-> "t2"]}

FileKeys == {SafeUserId(u) : u \in UserIds}

\* CaseLibraryManager(user_id).load_cases(), lines 32-55: a missing file is the empty
\* list
LibraryOf(fs, user_id) == load_cases(fs.library[SafeUserId(user_id)])

\* progress_manager.py lines 19-29: a missing file is the empty set
load_completed_scenarios(fs, user_id) == fs.progress[SafeUserId(user_id)]

\* progress_manager.py lines 37-43: the data directory after the call
mark_scenario_completed(fs, user_id, scenario_id) ==
    IF user_id = <<>> \/ scenario_id = "" THEN fs
    ELSE [fs EXCEPT !.progress[SafeUserId(user_id)] =
                        load_completed_scenarios(fs, user_id) \cup {scenario_id}]

StoresInit ==
    /\ impl = "stores" /\ pc = "stores" /\ spl = <<>>
    /\ parsed = NoParse /\ summary = <<>> /\ base_md = <<>> /\ warnings = <<>>
    /\ result = None
    /\ prefer_gpt = FALSE /\ include_raw_query = FALSE /\ openai = FALSE
    /\ used_engine = "RULE" /\ llm_error = None /\ out = None
    /\ e1 = "" /\ e2 = "" /\ api_calls = <<>> /\ llm_entries = 0 /\ rule_runs = 0
    /\ invs = <<>> /\ made = <<>> /\ cases = <<>>
    /\ files = [library |-> [k \in FileKeys |-> <<>>], progress |-> [k \in FileKeys |-> {}]]
    /\ marked = {}

\* CaseLibraryManager(user_id).add_case(scenario_data), lines 7-25 and 57-72
StoreAddCase(user_id, scenario_data) ==
    /\ impl = "stores"
    /\ Len(files.library[SafeUserId(user_id)]) < MaxCases
    /\ files' = [files EXCEPT !.library[SafeUserId(user_id)] =
                     add_case(@, scenario_data, "u1").file]
    /\ UNCHANGED <<marked, invs, made, cases, impl, pc, spl, prefer_gpt, include_raw_query,
                   openai, parsed, summary, base_md, warnings, used_engine, llm_error, out,
                   e1, e2, api_calls, llm_entries, rule_runs, result>>

\* ProgressManager().mark_scenario_completed(user_id, scenario_id), lines 37-43;
\* marked keeps the calls that named a user and a scenario
MarkCompleted(user_id, scenario_id) ==
    /\ impl = "stores"
    /\ files' = mark_scenario_completed(files, user_id, scenario_id)
    /\ marked' = IF user_id = <<>> \/ scenario_id = "" THEN marked
                 ELSE marked \cup {<<user_id, scenario_id>>}
    /\ UNCHANGED <<invs, made, cases, impl, pc, spl, prefer_gpt, include_raw_query,
                   openai, parsed, summary, base_md, warnings, used_engine, llm_error, out,
                   e1, e2, api_calls, llm_entries, rule_runs, result>>

StoresNext ==
    \/ \E user_id \in UserIds, scenario_data \in StoreRecords :
          StoreAddCase(user_id, scenario_data)
    \/ \E user_id \in UserIds, scenario_id \in ScenarioIds :
          MarkCompleted(user_id, scenario_id)

SpecStores == StoresInit /\ [][StoresNext]_vars

----------------------------------------------------------------------------
(* The external engine: what one API call of the OpenAI client can do *)

\* OPENAI_MODEL, src/query_test.py:37 and src/back/explain.py:34 (the default)
OPENAI_MODEL == "gpt-4o-mini"

\* a document as the engine writes it, with whitespace around it
LlmDoc == <<SP, NineHeadings[1], NL, "- ", "llm", NL>>

\* the texts a response can carry: empty, whitespace only, a document
Texts == {<<>>, <<SP, NL>>, LlmDoc}
OptTexts == {None} \cup {Some(t) : t \in Texts}

\* the output parts of a Responses API result: the text of each output_text item
PartsSet == {<<>>, <<Some(<<>>)>>, <<Some(LlmDoc)>>, <<None>>, <<Some(<<SP>>), Some(LlmDoc)>>}

\* exceptions a call can raise, with str(e)
Excs ==
    {[type |-> "TypeError", msg |-> <<"unexpected keyword argument">>],
     [type |-> "APIConnectionError", msg |-> <<>>]}

Raise(e) == [kind |-> "raise", exc |-> e, text |-> None, parts |-> <<>>]
Rsp(t, ps) == [kind |-> "rsp", exc |-> [type |-> "", msg |-> <<>>], text |-> t, parts |-> ps]

\* outcomes of responses.create: it raises, or returns output_text and output
ResponsesOutcomes ==
    {Raise(e) : e \in Excs} \cup {Rsp(t, ps) : t \in OptTexts, ps \in PartsSet}

\* outcomes of chat.completions.create: it raises, or returns message.content
ChatOutcomes == {Raise(e) : e \in Excs} \cup {Rsp(t, <<>>) : t \in OptTexts}

AttributeError ==
    [type |-> "AttributeError", msg |-> <<"'NoneType' object has no attribute 'strip'">>]
JoinTypeError ==
    [type |-> "TypeError", msg |-> <<"sequence item 0: expected str instance">>]

\* what a step of llm_explain_and_validate does next: return (out, err), or go on
\* to the next API form with the caught exception
Ret(o, err) == [ret |-> TRUE, out |-> o, err |-> err, exc |-> [type |-> "", msg |-> <<>>]]
Caught(e) == [ret |-> FALSE, out |-> None, err |-> None, exc |-> e]

UNKNOWN_FORMAT == <<"Unknown response format">>
KEY_NOT_SET == <<"OPENAI_API_KEY not set">>

----------------------------------------------------------------------------
(* llm_explain_and_validate, src/query_test.py:289-348 *)

\* lines 301-319: Responses API with system + string input
QtStep1(oc) ==
    IF oc.kind = "raise" THEN Caught(oc.exc)
    ELSE IF Truthy(oc.text) THEN Ret(Some(Strip(oc.text.val)), None)
    ELSE IF oc.parts # <<>>
         THEN IF \E i \in DOMAIN oc.parts : ~oc.parts[i].some
              THEN Caught(JoinTypeError)
              ELSE Ret(Some(Strip(Join([i \in DOMAIN oc.parts |-> oc.parts[i].val],
                                       <<NL>>))), None)
    ELSE Ret(None, Some(UNKNOWN_FORMAT))

\* lines 321-333: Responses API with a messages array
QtStep2(oc) ==
    IF oc.kind = "raise" THEN Caught(oc.exc)
    ELSE IF Truthy(oc.text) THEN Ret(Some(Strip(oc.text.val)), None)
    ELSE Ret(None, Some(UNKNOWN_FORMAT))

\* lines 335-346: Chat Completions
QtStep3(oc, x1, x2) ==
    LET failed(x3) == Ret(None, Some(<<x1, " / ", x2, " / ", x3>>))
    IN  IF oc.kind = "raise" THEN failed(oc.exc.type)
        ELSE IF ~oc.text.some THEN failed(AttributeError.type)
        ELSE Ret(Some(Strip(oc.text.val)), None)

----------------------------------------------------------------------------
(* The facade of src/query_test.py:371-414 *)

\* the fence lines of the input-query block, three backquotes followed by spl
\* and three backquotes (a backquote cannot be written in a string here)
FENCE_SPL == "<fence>spl"
FENCE_END == "<fence>"

\* lines 371-374
_prepend_raw_query(s, body, engine, model, err) ==
    LET head == <<"<!-- engine=", engine, "; model=", model>>
                \o (IF Truthy(err) THEN <<"; error=">> \o err.val ELSE <<>>)
                \o <<" -->", NL>>
        raw == <<"### Input Query", NL, FENCE_SPL, NL>> \o s \o <<NL, FENCE_END, NL, NL>>
    IN  head \o raw \o body

\* line 386 with the test of the client left out
QtUseLlmNoClientTest(prefer, client) == prefer

\* line 386: the external engine is tried
QtUseLlm(prefer, client) == prefer /\ client

\* line 388 written as "if out is not None"
QtEngineOfNotNone(o) == IF o.some THEN "LLM" ELSE "RULE"

\* lines 382, 388-389: the engine tag after the attempt returned o
QtEngineOf(o) == IF Truthy(o) THEN "LLM" ELSE "RULE"

\* line 391: the rule-based path runs
QtNeedsRule(o) == ~Truthy(o)

\* lines 394-395
QtDocument(include, s, o, engine, err) ==
    IF include THEN _prepend_raw_query(s, o, engine, OPENAI_MODEL, err) ELSE o

\* the queries given to the facades
FacadeQueries ==
    { <<>>, <<SP>>, <<"x">>,
      <<"index", "=", "main", SP, "|", SP, "sort", SP, "x", NL>>,
      <<"x", SP, "|", SP, "foo", NL, NineHeadings[9]>>,
      <<"x", NL, FENCE_END, NL, "|", SP, "stats", SP, "y">> }

Init ==
    /\ impl \in {"query_test", "back", "llm_query_test", "llm_back"}
    /\ pc = IF impl \in {"query_test", "back"} THEN "facade" ELSE "llm"
    /\ spl \in FacadeQueries
    /\ prefer_gpt \in (IF impl = "query_test" THEN BOOLEAN ELSE {TRUE})
    /\ include_raw_query \in (IF impl \in {"query_test", "back"} THEN BOOLEAN ELSE {FALSE})
    /\ openai \in BOOLEAN
    /\ parsed = NoParse /\ summary = <<>> /\ base_md = <<>> /\ warnings = <<>>
    /\ used_engine = "RULE" /\ llm_error = None /\ out = None
    /\ e1 = "" /\ e2 = "" /\ api_calls = <<>>
    /\ llm_entries = IF impl \in {"query_test", "back"} THEN 0 ELSE 1
    /\ rule_runs = 0
    /\ result = None
    /\ Unused

\* lines 382-386: the locals are set and the engine is chosen
QtEnter ==
    /\ impl = "query_test" /\ pc = "facade"
    /\ used_engine' = "RULE" /\ llm_error' = None /\ out' = None
    /\ IF QtUseLlm(prefer_gpt, openai)
       THEN pc' = "llm" /\ llm_entries' = llm_entries + 1
       ELSE pc' = "fallback" /\ UNCHANGED llm_entries
    /\ UNCHANGED <<files, marked, invs, made, cases, impl, spl, prefer_gpt, include_raw_query, openai, parsed, summary,
                   base_md, warnings, e1, e2, api_calls, rule_runs, result>>

\* llm_explain_and_validate returns (o, err): to the facade (lines 387-389), or
\* to a caller that called it directly
QtReturnFromLlm(o, err) ==
    /\ out' = o /\ llm_error' = err
    /\ IF impl = "query_test"
       THEN /\ used_engine' = QtEngineOf(o)
            /\ pc' = "fallback"
            /\ UNCHANGED result
       ELSE /\ pc' = "done"
            /\ result' = [kind |-> "return", out |-> o, err |-> err]
            /\ UNCHANGED used_engine

\* lines 296-299
QtLlmEntry ==
    /\ impl \in {"query_test", "llm_query_test"} /\ pc = "llm"
    /\ IF ~openai
       THEN QtReturnFromLlm(None, Some(KEY_NOT_SET))
       ELSE pc' = "api1" /\ UNCHANGED <<out, llm_error, used_engine, result>>
    /\ UNCHANGED <<files, marked, invs, made, cases, impl, spl, prefer_gpt, include_raw_query, openai, parsed, summary,
                   base_md, warnings, e1, e2, api_calls, llm_entries, rule_runs>>

\* lines 301-319
QtApi1 ==
    /\ impl \in {"query_test", "llm_query_test"} /\ pc = "api1"
    /\ \E oc \in ResponsesOutcomes :
        /\ api_calls' = Append(api_calls, [form |-> "responses_str", outcome |-> oc])
        /\ LET r == QtStep1(oc)
           IN  IF r.ret
               THEN QtReturnFromLlm(r.out, r.err) /\ UNCHANGED e1
               ELSE /\ e1' = r.exc.type /\ pc' = "api2"
                    /\ UNCHANGED <<out, llm_error, used_engine, result>>
    /\ UNCHANGED <<files, marked, invs, made, cases, impl, spl, prefer_gpt, include_raw_query, openai, parsed, summary,
                   base_md, warnings, e2, llm_entries, rule_runs>>

\* lines 321-333
QtApi2 ==
    /\ impl \in {"query_test", "llm_query_test"} /\ pc = "api2"
    /\ \E oc \in ResponsesOutcomes :
        /\ api_calls' = Append(api_calls, [form |-> "responses_msgs", outcome |-> oc])
        /\ LET r == QtStep2(oc)
           IN  IF r.ret
               THEN QtReturnFromLlm(r.out, r.err) /\ UNCHANGED e2
               ELSE /\ e2' = r.exc.type /\ pc' = "api3"
                    /\ UNCHANGED <<out, llm_error, used_engine, result>>
    /\ UNCHANGED <<files, marked, invs, made, cases, impl, spl, prefer_gpt, include_raw_query, openai, parsed, summary,
                   base_md, warnings, e1, llm_entries, rule_runs>>

\* lines 335-346
QtApi3 ==
    /\ impl \in {"query_test", "llm_query_test"} /\ pc = "api3"
    /\ \E oc \in ChatOutcomes :
        /\ api_calls' = Append(api_calls, [form |-> "chat", outcome |-> oc])
        /\ LET r == QtStep3(oc, e1, e2) IN QtReturnFromLlm(r.out, r.err)
    /\ UNCHANGED <<files, marked, invs, made, cases, impl, spl, prefer_gpt, include_raw_query, openai, parsed, summary,
                   base_md, warnings, e1, e2, llm_entries, rule_runs>>

\* lines 391-392: the rule-based path, when the attempt left no document
QtFallback ==
    /\ impl = "query_test" /\ pc = "fallback"
    /\ IF QtNeedsRule(out)
       THEN /\ out' = Some(explain_spl_to_markdown_full(spl))
            /\ rule_runs' = rule_runs + 1
       ELSE UNCHANGED <<out, rule_runs>>
    /\ pc' = "prepend"
    /\ UNCHANGED <<files, marked, invs, made, cases, impl, spl, prefer_gpt, include_raw_query, openai, parsed, summary,
                   base_md, warnings, used_engine, llm_error, e1, e2, api_calls,
                   llm_entries, result>>

\* lines 394-395
QtPrepend ==
    /\ impl = "query_test" /\ pc = "prepend"
    /\ out' = Some(QtDocument(include_raw_query, spl, out.val, used_engine, llm_error))
    /\ pc' = "return"
    /\ UNCHANGED <<files, marked, invs, made, cases, impl, spl, prefer_gpt, include_raw_query, openai, parsed, summary,
                   base_md, warnings, used_engine, llm_error, e1, e2, api_calls,
                   llm_entries, rule_runs, result>>

\* lines 397-403
QtReturn ==
    /\ impl = "query_test" /\ pc = "return"
    /\ result' = [kind |-> "return", engine |-> used_engine, model |-> OPENAI_MODEL,
                  llm_ready |-> openai, llm_error |-> llm_error, markdown |-> out.val]
    /\ pc' = "done"
    /\ UNCHANGED <<files, marked, invs, made, cases, impl, spl, prefer_gpt, include_raw_query, openai, parsed, summary,
                   base_md, warnings, used_engine, llm_error, out, e1, e2, api_calls,
                   llm_entries, rule_runs>>

----------------------------------------------------------------------------
(* src/back/explain.py: llm_explain_and_validate (68-95) and the facade (100-130) *)

\* lines 73-82: Responses API
BackStep1(oc) ==
    IF oc.kind = "raise" THEN Caught(oc.exc)
    ELSE IF Truthy(oc.text) THEN Ret(Some(Strip(oc.text.val)), None)
    ELSE Ret(None, Some(UNKNOWN_FORMAT))

\* lines 83-94: Chat Completions; the error message is str(e2)
BackStep2(oc) ==
    IF oc.kind = "raise" THEN Ret(None, Some(oc.exc.msg))
    ELSE IF ~oc.text.some THEN Ret(None, Some(AttributeError.msg))
    ELSE Ret(Some(Strip(oc.text.val)), None)

\* lines 100-103: the header always says engine=LLM
Back_prepend_raw_query(s, body, model, err) ==
    _prepend_raw_query(s, body, "LLM", model, err)

\* line 110: the facade gives up
BackFails(o) == ~Truthy(o)

\* line 111: RuntimeError(f"LLM failed: {error}")
BackError(err) ==
    [kind |-> "raise", exc |-> "RuntimeError",
     msg |-> <<"LLM failed: ">> \o (IF err.some THEN err.val ELSE <<"None">>)]

\* line 109: the facade calls llm_explain_and_validate
BackEnter ==
    /\ impl = "back" /\ pc = "facade"
    /\ pc' = "llm"
    /\ llm_entries' = llm_entries + 1
    /\ UNCHANGED <<files, marked, invs, made, cases, impl, spl, prefer_gpt, include_raw_query, openai, parsed, summary,
                   base_md, warnings, used_engine, llm_error, out, e1, e2, api_calls,
                   rule_runs, result>>

\* llm_explain_and_validate returns (o, err): to the facade (line 109), or to a
\* caller that called it directly
BackReturnFromLlm(o, err) ==
    /\ out' = o /\ llm_error' = err
    /\ IF impl = "back"
       THEN pc' = "check" /\ UNCHANGED result
       ELSE pc' = "done" /\ result' = [kind |-> "return", out |-> o, err |-> err]

\* lines 69-72
BackLlmEntry ==
    /\ impl \in {"back", "llm_back"} /\ pc = "llm"
    /\ IF ~openai
       THEN BackReturnFromLlm(None, Some(KEY_NOT_SET))
       ELSE pc' = "api1" /\ UNCHANGED <<out, llm_error, result>>
    /\ UNCHANGED <<files, marked, invs, made, cases, impl, spl, prefer_gpt, include_raw_query, openai, parsed, summary,
                   base_md, warnings, used_engine, e1, e2, api_calls, llm_entries,
                   rule_runs>>

\* lines 73-82
BackApi1 ==
    /\ impl \in {"back", "llm_back"} /\ pc = "api1"
    /\ \E oc \in ResponsesOutcomes :
        /\ api_calls' = Append(api_calls, [form |-> "responses_str", outcome |-> oc])
        /\ LET r == BackStep1(oc)
           IN  IF r.ret
               THEN BackReturnFromLlm(r.out, r.err) /\ UNCHANGED e1
               ELSE /\ e1' = r.exc.type /\ pc' = "api2"
                    /\ UNCHANGED <<out, llm_error, result>>
    /\ UNCHANGED <<files, marked, invs, made, cases, impl, spl, prefer_gpt, include_raw_query, openai, parsed, summary,
                   base_md, warnings, used_engine, e2, llm_entries, rule_runs>>

\* lines 83-94
BackApi2 ==
    /\ impl \in {"back", "llm_back"} /\ pc = "api2"
    /\ \E oc \in ChatOutcomes :
        /\ api_calls' = Append(api_calls, [form |-> "chat", outcome |-> oc])
        /\ LET r == BackStep2(oc) IN BackReturnFromLlm(r.out, r.err)
    /\ UNCHANGED <<files, marked, invs, made, cases, impl, spl, prefer_gpt, include_raw_query, openai, parsed, summary,
                   base_md, warnings, used_engine, e1, e2, llm_entries, rule_runs>>

\* lines 110-111
BackCheck ==
    /\ impl = "back" /\ pc = "check"
    /\ IF BackFails(out)
       THEN result' = BackError(llm_error) /\ pc' = "done"
       ELSE pc' = "prepend" /\ UNCHANGED result
    /\ UNCHANGED <<files, marked, invs, made, cases, impl, spl, prefer_gpt, include_raw_query, openai, parsed, summary,
                   base_md, warnings, used_engine, llm_error, out, e1, e2, api_calls,
                   llm_entries, rule_runs>>

\* lines 113-114
BackPrepend ==
    /\ impl = "back" /\ pc = "prepend"
    /\ out' = Some(IF include_raw_query
                   THEN Back_prepend_raw_query(spl, out.val, OPENAI_MODEL, llm_error)
                   ELSE out.val)
    /\ pc' = "return"
    /\ UNCHANGED <<files, marked, invs, made, cases, impl, spl, prefer_gpt, include_raw_query, openai, parsed, summary,
                   base_md, warnings, used_engine, llm_error, e1, e2, api_calls,
                   llm_entries, rule_runs, result>>

\* lines 116-122
BackReturn ==
    /\ impl = "back" /\ pc = "return"
    /\ result' = [kind |-> "return", engine |-> "LLM", model |-> OPENAI_MODEL,
                  llm_ready |-> openai, llm_error |-> llm_error, markdown |-> out.val]
    /\ pc' = "done"
    /\ UNCHANGED <<files, marked, invs, made, cases, impl, spl, prefer_gpt, include_raw_query, openai, parsed, summary,
                   base_md, warnings, used_engine, llm_error, out, e1, e2, api_calls,
                   llm_entries, rule_runs>>

----------------------------------------------------------------------------
(* The facades and their engine calls as one system *)

Next ==
    \/ QtEnter \/ QtLlmEntry \/ QtApi1 \/ QtApi2 \/ QtApi3
    \/ QtFallback \/ QtPrepend \/ QtReturn
    \/ BackEnter \/ BackLlmEntry \/ BackApi1 \/ BackApi2
    \/ BackCheck \/ BackPrepend \/ BackReturn

Spec == Init /\ [][Next]_vars

----------------------------------------------------------------------------
(* Vocabulary of the properties *)

IsPrefix(p, s) == Len(p) <= Len(s) /\ SubSeq(s, 1, Len(p)) = p
IsSuffix(p, s) == Len(p) <= Len(s) /\ SubSeq(s, Len(s) - Len(p) + 1, Len(s)) = p
Contains(s, sub) ==
    \E i \in 1..(Len(s) - Len(sub) + 1) : SubSeq(s, i, i + Len(sub) - 1) = sub

\* a facade invocation has finished
FacadeDone == pc = "done" /\ impl \in {"query_test", "back"}

\* the last API call of the attempt
LastCall == api_calls[Len(api_calls)]

\* an API call came back with non-empty text, as output_text / message.content
\* or as an output part
YieldsText(oc) ==
    /\ oc.kind = "rsp"
    /\ (Truthy(oc.text) \/ \E i \in DOMAIN oc.parts : Truthy(oc.parts[i]))

\* the external engine was tried and gave nothing: no client, an exception, no text
ExternalFailed ==
    /\ llm_entries > 0
    /\ (api_calls = <<>> \/ ~YieldsText(LastCall.outcome))

\* the metadata header for an engine tag and an error
HeaderOf(engine, err) ==
    <<"<!-- engine=", engine, "; model=", OPENAI_MODEL>>
    \o (IF Truthy(err) THEN <<"; error=">> \o err.val ELSE <<>>)
    \o <<" -->", NL>>

\* the verbatim block of the raw query
RawBlockOf(s) == <<"### Input Query", NL, FENCE_SPL, NL>> \o s \o <<NL, FENCE_END, NL>>

----------------------------------------------------------------------------
(* The facades: C1 - C6 *)

\* C1: whatever the query and whatever the external engine does (no client, an
\* exception, empty text, text), both facades return a result that carries a
\* non-empty document, and no exception escapes to the caller.
C1_AlwaysADocument ==
    FacadeDone => (result.kind = "return" /\ result.markdown # <<>>)

\* C2: in the facade of query_test.py, when the external engine was tried and
\* its last call raised or gave no text, the rule-based path ran and the result
\* is the rule-based document with engine=RULE; engine=LLM is returned only when
\* the external call gave non-empty text, and then the rule-based path did not run.
C2_FallbackOrLlm ==
    (pc = "done" /\ impl = "query_test") =>
        /\ (llm_entries > 0 /\ ~YieldsText(LastCall.outcome)) =>
               /\ result.engine = "RULE"
               /\ rule_runs = 1
               /\ IsSuffix(explain_spl_to_markdown_full(spl), result.markdown)
        /\ result.engine = "LLM" =>
               /\ llm_entries = 1
               /\ YieldsText(LastCall.outcome)
               /\ rule_runs = 0

\* an attempt whose three calls all raised ended in the rule-based document
C2_Witness ==
    /\ pc = "done" /\ impl = "query_test"
    /\ Len(api_calls) = 3
    /\ LastCall.outcome.kind = "raise"
    /\ result.engine = "RULE"
    /\ rule_runs = 1

\* C3: when the facade tried the external engine and then fell back to the
\* rule-based path (engine=RULE after an attempt), the returned llm_error is a
\* non-empty message, whatever way the attempt failed, a response with empty or
\* whitespace-only text included.
C3_ErrorAfterFallback ==
    (pc = "done" /\ impl = "query_test" /\ llm_entries > 0 /\ result.engine = "RULE")
        => Truthy(result.llm_error)

\* C4 as a state predicate: the engine was entered at most once, and not at all
\* when prefer_gpt is false or there is no client
C4_EnteredAtMostOnce ==
    /\ llm_entries <= 1
    /\ (~prefer_gpt \/ ~openai) => (llm_entries = 0 /\ api_calls = <<>>)

\* C4 as a step: once the rule-based path is reached, the engine is not entered
\* and no API call is made
C4_NoRetry ==
    (pc \in {"fallback", "prepend", "return", "done"} \/ rule_runs > 0)
        => (llm_entries' = llm_entries /\ api_calls' = api_calls)

\* C4: within one invocation of the facade of query_test.py the external engine
\* is entered at most once and only before the rule-based path: after the
\* rule-based path has started it is never entered again, and it is not entered
\* at all when prefer_gpt is false or no client is configured.
C4_EngineOnceBeforeRule ==
    /\ [](impl = "query_test" => C4_EnteredAtMostOnce)
    /\ [][impl = "query_test" => C4_NoRetry]_vars

\* the engine was entered, failed, and the rule-based path ran after it
C4_Witness ==
    /\ pc = "done" /\ impl = "query_test"
    /\ llm_entries = 1 /\ api_calls # <<>>
    /\ rule_runs = 1

\* C5: for every successful invocation of a facade, with include_raw_query true
\* or false, the document begins with the metadata header (engine tag, model,
\* and the error text of a failed attempt), and the verbatim raw-query block is
\* in the document if and only if include_raw_query is true.
C5_HeaderAlways ==
    (FacadeDone /\ result.kind = "return") =>
        /\ IsPrefix(HeaderOf(result.engine, result.llm_error), result.markdown)
        /\ Contains(result.markdown, RawBlockOf(spl)) <=> include_raw_query

\* C6: when the external engine is unavailable or fails and the rule-based path
\* gives no document either, the facade returns a record with engine=ERROR and
\* an explanatory message instead of raising; the engine of a returned record
\* is always one of RULE, LLM, ERROR.
C6_ErrorRecord ==
    FacadeDone =>
        /\ (ExternalFailed /\ rule_runs = 0) =>
               /\ result.kind = "return"
               /\ result.engine = "ERROR"
               /\ Truthy(result.llm_error)
        /\ result.kind = "return" => result.engine \in {"RULE", "LLM", "ERROR"}

----------------------------------------------------------------------------
(* The rule pipeline: C7 - C10 *)

\* the heading lines of a document, in the order they occur: a section heading
\* that is a line of its own
HeadingsIn(doc) ==
    LET isLine(i) == /\ doc[i] \in HeadingSet
                     /\ (i = 1 \/ doc[i - 1] = NL)
                     /\ (i = Len(doc) \/ doc[i + 1] = NL)
        at == SelectSeq([i \in DOMAIN doc |-> i], isLine)
    IN  [k \in DOMAIN at |-> doc[at[k]]]

\* C7: for every query (the empty one and one that itself holds a heading-like
\* line included) the document of explain_spl_to_markdown_full holds each of the
\* nine section headings exactly once, in the fixed order.
C7_NineHeadingsOnce ==
    (pc = "done" /\ impl = "rule") => HeadingsIn(result.val) = NineHeadings

\* the bracket depth in front of position i
Depth(text, i) ==
    Cardinality({j \in 1..(i - 1) : text[j] = "["})
    - Cardinality({j \in 1..(i - 1) : text[j] = "]"})

\* the closing bracket that brings the depth opened at b back to zero, 0 if none
DepthClose(text, b) ==
    LET closes == {c \in (b + 1)..Len(text) :
                       text[c] = "]" /\ Depth(text, c + 1) = Depth(text, b)}
    IN  IF closes = {} THEN 0 ELSE CHOOSE c \in closes : \A d \in closes : c <= d

\* the bracket at b opens the subsearch of a join: the command of the nearest
\* pipe in front of it is join
OpensSubsearch(text, b) ==
    \E p \in 1..(b - 1) :
        /\ text[p] = "|"
        /\ \A q \in (p + 1)..(b - 1) : text[q] # "|"
        /\ SkipWs(text, p + 1) < b
        /\ Lower(text[SkipWs(text, p + 1)]) = "join"

\* position i lies inside the brackets of a join subsearch
Enclosed(text, i) ==
    \E b \in 1..(i - 1) :
        text[b] = "[" /\ OpensSubsearch(text, b) /\ DepthClose(text, b) > i

\* the pipes that delimit segments: those outside every join subsearch
TopPipes(text) == {i \in DOMAIN text : text[i] = "|" /\ ~Enclosed(text, i)}

\* the segment that follows the pipe at p, stripped
SegAfter(text, p) ==
    LET later == {q \in TopPipes(text) : q > p}
        e == IF later = {} THEN Len(text)
             ELSE (CHOOSE q \in later : \A r \in later : q <= r) - 1
    IN  Strip(SubSeq(text, p + 1, e))

RECURSIVE SegsFrom(_, _)
\* the non-empty trailing segments from position p on, in order
SegsFrom(text, p) ==
    IF p > Len(text) THEN <<>>
    ELSE (IF p \in TopPipes(text) /\ SegAfter(text, p) # <<>>
          THEN <<SegAfter(text, p)>> ELSE <<>>)
         \o SegsFrom(text, p + 1)

\* the leading keyword of a segment, lower-cased
LeadWord(seg) ==
    IF Len(seg) = 1 \/ IsSpace(seg[2]) THEN Lower(seg[1]) ELSE "?"

\* what follows the leading keyword
BodyOf(seg) == _norm_ws(SubSeq(seg, 2, Len(seg)))

\* the bodies of the segments led by keyword kw
BodiesFor(segs, kw) ==
    LET mine == SelectSeq(segs, LAMBDA g : LeadWord(g) = kw)
    IN  [i \in DOMAIN mine |-> BodyOf(mine[i])]

\* the category of each keyword but join
CategoryOf ==
    [search |-> "search_terms", eval |-> "evals", transaction |-> "transactions",
     stats |-> "stats", timechart |-> "timecharts", where |-> "wheres",
     lookup |-> "lookups", rex |-> "rexes", sort |-> "sorts", dedup |-> "dedups",
     table |-> "tables", fields |-> "fields_cmds"]

\* C8: every non-empty pipe-delimited trailing segment is in exactly one
\* category: a segment with a recognized leading keyword gives one entry, its
\* body, to that keyword's category and to no other, a segment with another
\* leading word gives its whole text to others; none is lost (a command followed
\* by a newline or without arguments included) and none is counted twice (a pipe
\* inside a join subsearch included).
C8_EverySegmentOnce ==
    (pc = "done" /\ impl = "rule") =>
        LET segs == SegsFrom(Strip(spl), 1)
        IN  /\ \A kw \in DOMAIN CategoryOf :
                   parsed.ops[CategoryOf[kw]] = BodiesFor(segs, kw)
            /\ Len(parsed.ops.joins)
                   = Len(SelectSeq(segs, LAMBDA g : LeadWord(g) = "join"))
            /\ parsed.ops.others
                   = SelectSeq(segs, LAMBDA g : LeadWord(g) \notin EssentialSet)

\* C9: for any input that contains | join host,user [search foo | stats count],
\* parse_spl gives a join entry whose field list is exactly host,user and whose
\* subsearch is exactly search foo | stats count.
C9_JoinClauseEntry ==
    (pc = "done" /\ impl = "rule" /\ Contains(spl, JoinClause)) =>
        \E i \in DOMAIN parsed.ops.joins :
            /\ parsed.ops.joins[i].on = <<"host,user">>
            /\ parsed.ops.joins[i].subsearch
                   = <<"search", SP, "foo", SP, "|", SP, "stats", SP, "count">>

\* C10: for a join clause whose bracketed subsearch holds balanced nested
\* brackets, the extracted subsearch is the whole interior up to the closing
\* bracket that matches the first opening bracket, not the text up to the first
\* closing bracket.
C10_SubsearchToMatchingBracket ==
    (pc = "done" /\ impl = "rule") =>
        LET text == Strip(spl)
            spans == JoinSpans(text, 1)
        IN  \A i \in DOMAIN spans :
                LET b == spans[i][2]
                    m == DepthClose(text, b)
                IN  (m # 0 /\ \E j \in (b + 1)..(m - 1) : text[j] = "[") =>
                        parsed.ops.joins[i].subsearch
                            = _norm_ws(SubSeq(text, b + 1, m - 1))

----------------------------------------------------------------------------
(* The validator: C11 - C13 *)

\* a run of the rule pipeline has finished
RuleDone == pc = "done" /\ impl = "rule"

\* the six warnings in the order validate_spl declares them
SixWarnings == <<W_SOURCE, W_TIME, W_JOIN, W_TRANSACTION, W_OUTPUT, W_WHERE>>

\* the condition of the k-th warning on a structural model p
WarnCond(k, p) ==
    CASE k = 1 -> p.overview.index = <<>> /\ p.overview.sourcetype = <<>>
      [] k = 2 -> ~p.overview.earliest.some /\ ~p.overview.latest.some
      [] k = 3 -> Len(p.ops.joins) >= 1
      [] k = 4 -> Len(p.ops.transactions) >= 1
      [] k = 5 -> p.ops.tables = <<>> /\ p.ops.fields_cmds = <<>>
      [] k = 6 -> /\ Len(p.ops.wheres) >= 1
                  /\ \A i \in DOMAIN p.ops.wheres : ~HasNumeric(p.ops.wheres[i])

\* the place of a warning in the declaration order
WarnRank(w) == CHOOSE k \in DOMAIN SixWarnings : SixWarnings[k] = w

\* the last section of a document without warnings
NoWarningsSection == <<NineHeadings[9], NL, "- ", "no special warnings">>

\* ws is the subsequence, in declaration order, of the warnings whose condition
\* holds on p
IsWarningsOf(ws, p) ==
    /\ \A i \in DOMAIN ws : \E k \in DOMAIN SixWarnings : ws[i] = SixWarnings[k]
    /\ \A k \in DOMAIN SixWarnings :
           (\E i \in DOMAIN ws : ws[i] = SixWarnings[k]) <=> WarnCond(k, p)
    /\ \A i, j \in DOMAIN ws : i < j => WarnRank(ws[i]) < WarnRank(ws[j])

WarningsOf(q) == validate_spl(parse_spl(q))

\* the query holds no earliest= and no latest= token
NoTimeToken(q) == \A i \in DOMAIN q : q[i] \notin {"earliest", "latest"}

\* the queries made by adding the whitespace-separated token earliest=-24h to q
WithEarliest(q) == {q \o <<SP>> \o EarliestToken, EarliestToken \o <<SP>> \o q}

\* C12: the warnings of a query q without an earliest=/latest= token include
\* the unbounded-time-range warning, and the warnings of q with the
\* whitespace-separated token earliest=-24h added are the warnings of q with
\* exactly that warning removed (the others and their order are the same).
C12_EarliestRemovesOnlyTimeWarning ==
    (RuleDone /\ NoTimeToken(spl)) =>
        /\ \E i \in DOMAIN warnings : warnings[i] = W_TIME
        /\ \A q2 \in WithEarliest(spl) :
               WarningsOf(q2) = SelectSeq(warnings, LAMBDA w : w # W_TIME)

\* C13: for the end-to-end query (index, quoted sourcetype, earliest and latest,
\* rex, stats, where total>=5, table) the list of the validator holds none of
\* the data-source, unbounded-time-range, output-fields and
\* no-numeric-threshold warnings.
C13_EndToEndQueryWarnings ==
    (RuleDone /\ spl = E2EQuery) =>
        \A i \in DOMAIN warnings : warnings[i] \notin {W_SOURCE, W_TIME, W_OUTPUT, W_WHERE}

\* the end-to-end query was parsed: its where clause and its table are entries
C13_Witness ==
    /\ RuleDone /\ spl = E2EQuery
    /\ parsed.ops.wheres = << <<"total", ">=", "5">> >>
    /\ Len(parsed.ops.tables) = 1
    /\ parsed.overview.index = << <<"main">> >>

----------------------------------------------------------------------------
(* The summarizer and the intent: C14 - C20 *)

\* the labels of the steps in the precedence order search, eval, transaction,
\* stats, timechart, join, rex, lookup, sort, dedup, table-or-fields
StepLabels ==
    <<"apply base search terms", "eval computation", "transaction event linking",
      "stats aggregation", "timechart aggregation", "join + subsearch",
      "rex extraction", "lookup reference", "sort ordering", "dedup removal",
      "table/fields output selection">>

DefaultStep == "simple filter/basic search"

\* the step list a summary shows
StepsOf(sum) ==
    SelectSeq(sum, LAMBDA t :
        t = DefaultStep \/ \E k \in DOMAIN StepLabels : t = StepLabels[k])

\* the text holds none of the thirteen command keywords
NoKeyword(q) == \A i \in DOMAIN q : Lower(q[i]) \notin EssentialSet

\* every category of a recognized keyword is empty
RecognizedEmpty(p) ==
    /\ \A kw \in DOMAIN CategoryOf : p.ops[CategoryOf[kw]] = <<>>
    /\ p.ops.joins = <<>>

\* C14 as stated: for any input without a recognized command keyword every
\* category of the OperationSet that parse_spl gives is empty, unclassified-other
\* included, and the step list of the summarizer is exactly the default label.
C14_NoKeywordAllEmpty ==
    (RuleDone /\ NoKeyword(spl)) =>
        /\ RecognizedEmpty(parsed)
        /\ parsed.ops.others = <<>>
        /\ StepsOf(summary) = <<DefaultStep>>

\* C14 amended: for any input without a recognized command keyword every
\* category of a recognized keyword is empty (unclassified-other holds the
\* segments led by another word) and the step list is exactly the default label.
C14_NoKeywordRecognizedEmpty ==
    (RuleDone /\ NoKeyword(spl)) =>
        /\ RecognizedEmpty(parsed)
        /\ StepsOf(summary) = <<DefaultStep>>

\* an input without a keyword whose segment went to unclassified-other
C14_Witness ==
    /\ RuleDone /\ NoKeyword(spl)
    /\ parsed.ops.others = << <<"foo", SP, "y">> >>


\* what one invocation on q yields when it runs alone (SpecRule)
AloneResult(q) ==
    LET p == parse_spl(q)
    IN  Some(FullDoc(summarize_spl(p, q), _mk_md_base(p, q), validate_spl(p)))

PairDone(c) == impl = "pair" /\ invs[c].pc = "done"

\* the invocations whose locals a step changes
Stepping == {c \in DOMAIN invs : invs'[c] # invs[c]}

\* C15: the rule-based result of an invocation depends only on its input query.
\* Whatever the interleaving of the invocations, a finished invocation holds the
\* document that an invocation alone yields on its query, so two invocations on the
\* same query hold the same document; and a step of one invocation changes the locals
\* of no other invocation and no module-level state.
C15_ResultDependsOnlyOnQuery ==
    /\ [](\A c \in DOMAIN invs :
            PairDone(c) =>
                /\ invs[c].result = AloneResult(invs[c].spl)
                /\ \A d \in DOMAIN invs :
                       PairDone(d) /\ invs[d].spl = invs[c].spl
                           => invs[d].result = invs[c].result)
    /\ [][/\ Cardinality(Stepping) <= 1
          /\ \A c \in Stepping : invs'[c].spl = invs[c].spl
          /\ SingleVars' = SingleVars]_vars

\* two invocations on the same query with entries in several categories have finished
\* one after the other
C15_Witness ==
    /\ PairDone("a") /\ PairDone("b")
    /\ invs["a"].spl = E2EQuery /\ invs["b"].spl = E2EQuery
    /\ Len(made) = 2

\* an invocation ran from its first line to its last between two lines of another
\* invocation on another query
C15_WitnessInterleaved ==
    /\ PairDone("a") /\ invs["b"].pc = "validate"
    /\ invs["a"].spl = E2EQuery /\ invs["b"].spl = ClausesOf({1, 5, 11})
    /\ Len(made) = 2 /\ made[1] = invs["b"].parsed.ops


\* the token at position i is a line of its own
IsLineAt(md, i) ==
    /\ (i = 1 \/ md[i - 1] = NL)
    /\ (i = Len(md) \/ md[i + 1] = NL)

\* the text between the opening fence line of the input-query block and the first
\* closing fence line after it; the document holds an opening fence line
BlockText(md) ==
    LET open  == CHOOSE i \in DOMAIN md :
                    /\ md[i] = FENCE_SPL /\ IsLineAt(md, i) /\ i < Len(md)
                    /\ \A j \in 1..(i - 1) : ~(md[j] = FENCE_SPL /\ IsLineAt(md, j))
        close == CHOOSE j \in DOMAIN md :
                    /\ j > open /\ md[j] = FENCE_END /\ IsLineAt(md, j)
                    /\ \A k \in (open + 1)..(j - 1) :
                           ~(md[k] = FENCE_END /\ IsLineAt(md, k))
    IN  SubSeq(md, open + 2, close - 2)

\* C16: when the facade output includes the input-query block, the text between the
\* fence lines of the block parses to the same overview and the same operation
\* categories as the query itself.
C16_BlockParsesAsQuery ==
    (FacadeDone /\ result.kind = "return" /\ include_raw_query) =>
        parse_spl(BlockText(result.markdown)) = parse_spl(spl)

\* the block of a query without a fence line gives the query back
C16_Witness ==
    /\ FacadeDone /\ result.kind = "return" /\ include_raw_query
    /\ spl = <<"index", "=", "main", SP, "|", SP, "sort", SP, "x", NL>>
    /\ BlockText(result.markdown) = spl


\* the text is empty or holds whitespace only
IsBlank(q) == \A i \in DOMAIN q : IsSpace(q[i])

\* the data-source lines of a document that names no index, no sourcetype and no
\* time window
UnspecifiedSource ==
    <<"- index: ", NOT_SPECIFIED, NL, "- sourcetype: ", NOT_SPECIFIED, NL,
      "- time range: ", NOT_SPECIFIED, NL>>

\* C17: for empty or whitespace-only input the rule pipeline returns a document:
\* every operation category is empty, the overview has no index, no sourcetype and
\* no time window, and the document renders the not-specified placeholders.
C17_BlankInput ==
    (RuleDone /\ IsBlank(spl)) =>
        /\ result.some
        /\ \A f \in DOMAIN parsed.ops : parsed.ops[f] = <<>>
        /\ parsed.overview.index = <<>> /\ parsed.overview.sourcetype = <<>>
        /\ ~parsed.overview.earliest.some /\ ~parsed.overview.latest.some
        /\ Contains(result.val, UnspecifiedSource)

C17_Witness ==
    /\ RuleDone /\ spl = <<SP, NL>>
    /\ Contains(result.val, UnspecifiedSource)


\* the rules of INTENT_RULES, by position, whose pattern is found in the text
HitRules(q) == {k \in DOMAIN INTENT_RULES(q) : INTENT_RULES(q)[k].hit}

\* the label of the earliest rule found in the text, the default label for none
EarliestLabel(q) ==
    IF HitRules(q) = {} THEN "generic log filter/aggregation query"
    ELSE INTENT_RULES(q)[CHOOSE k \in HitRules(q) : \A m \in HitRules(q) : k <= m].label

\* C18: the intent label of the document and of the summary is the label of the
\* first rule of INTENT_RULES, in list order, whose pattern matches the raw text, and
\* the default label when no rule matches.
C18_FirstMatchingRule ==
    RuleDone =>
        /\ infer_intent(spl) = EarliestLabel(spl)
        /\ Contains(result.val, <<NineHeadings[2], NL, "- ", EarliestLabel(spl), NL>>)
        /\ IsSuffix(<<EarliestLabel(spl)>>, summary)

\* a text that matches the first, the third and the fourth rule is labelled by the
\* first
C18_Witness ==
    /\ RuleDone
    /\ HitRules(spl) = {1, 3, 4}
    /\ Contains(result.val, <<NineHeadings[2], NL, "- ", INTENT_RULES(spl)[1].label, NL>>)


\* the categories of the precedence order search, eval, transaction, stats,
\* timechart, join, rex, lookup, sort, dedup, table-or-fields: the k-th has an entry
HasEntry(ops, k) ==
    CASE k = 1  -> ops.search_terms # <<>>
      [] k = 2  -> ops.evals # <<>>
      [] k = 3  -> ops.transactions # <<>>
      [] k = 4  -> ops.stats # <<>>
      [] k = 5  -> ops.timecharts # <<>>
      [] k = 6  -> ops.joins # <<>>
      [] k = 7  -> ops.rexes # <<>>
      [] k = 8  -> ops.lookups # <<>>
      [] k = 9  -> ops.sorts # <<>>
      [] k = 10 -> ops.dedups # <<>>
      [] k = 11 -> ops.tables # <<>> \/ ops.fields_cmds # <<>>

StepRank(t) == CHOOSE k \in DOMAIN StepLabels : StepLabels[k] = t

\* the labels of categories in the step list of a summary
CategorySteps(sum) == SelectSeq(StepsOf(sum), LAMBDA t : t # DefaultStep)

\* C20: the step list of the summary holds the label of a category exactly when the
\* category has an entry, once, and the labels stand in the precedence order,
\* whatever order the commands had in the query.
C20_StepsInPrecedenceOrder ==
    RuleDone =>
        LET st == CategorySteps(summary)
        IN  /\ \A k \in DOMAIN StepLabels :
                   (\E i \in DOMAIN st : st[i] = StepLabels[k]) <=> HasEntry(parsed.ops, k)
            /\ \A i, j \in DOMAIN st : i < j => StepRank(st[i]) < StepRank(st[j])

\* lookup, rex and search written in this order give search, rex, lookup
C20_Witness ==
    /\ RuleDone
    /\ spl = Cmd("lookup") \o Cmd("rex") \o Cmd("search")
    /\ StepsOf(summary) = <<StepLabels[1], StepLabels[7], StepLabels[8]>>


\* a stored case has the id or the title of the record
SharesIdOrTitle(stored, r) ==
    \E i \in DOMAIN stored : stored[i].id = r.id \/ stored[i].title = r.title

\* no two stored cases have the same id or the same title
NoTwoAlike(stored) ==
    \A i, j \in DOMAIN stored :
        i # j => stored[i].id # stored[j].id /\ stored[i].title # stored[j].title

\* C19: add_case returns False and leaves the stored cases as they are when a stored
\* case has the id or the title of the record, and otherwise appends the record and
\* returns True; so, from an empty library, no two stored cases ever share an id or a
\* title.  A call changes result, so every step of the library is a call.
C19_AddCaseRejectsDuplicates ==
    /\ [][impl = "cases" =>
            IF SharesIdOrTitle(cases, result'.record)
            THEN result'.ret = FALSE /\ cases' = cases
            ELSE result'.ret = TRUE /\ cases' = Append(cases, result'.record)]_<<cases, result>>
    /\ [](impl = "cases" => NoTwoAlike(cases))

\* a record with a new id and the title of a stored case came back rejected, the two
\* stored cases untouched
C19_Witness ==
    /\ impl = "cases" /\ Len(cases) = 2
    /\ result.kind = "add_case" /\ result.ret = FALSE
    /\ result.record.id \notin IdsOf(cases)
    /\ \E i \in DOMAIN cases : cases[i].title = result.record.title


----------------------------------------------------------------------------
(* The document sections and the parsed structure: C21 - C26 *)

\* the category names that label the lines of the Operation Steps section, in the
\* precedence order of the summarizer (search terms are shown under Base Filters and
\* have no line here), "other" last
StepNames ==
    <<"eval", "transaction", "stats", "timechart", "join", "rex", "lookup", "sort",
      "dedup", "table", "other">>

NameRank(n) == CHOOSE k \in DOMAIN StepNames : StepNames[k] = n

\* the labels of the labelled lines of a document, in the order of the lines
RECURSIVE LineLabels(_)
LineLabels(md) ==
    IF md = <<>> THEN <<>>
    ELSE (IF md[1] = "- **" /\ Len(md) > 1 THEN <<md[2]>> ELSE <<>>)
         \o LineLabels(Tail(md))

\* the entries of the category that a step name labels
EntriesOf(ops, n) ==
    CASE n = "eval"        -> ops.evals
      [] n = "transaction" -> ops.transactions
      [] n = "stats"       -> ops.stats
      [] n = "timechart"   -> ops.timecharts
      [] n = "join"        -> ops.joins
      [] n = "rex"         -> ops.rexes
      [] n = "lookup"      -> ops.lookups
      [] n = "sort"        -> ops.sorts
      [] n = "dedup"       -> ops.dedups
      [] n = "table"       -> ops.tables \o ops.fields_cmds
      [] n = "other"       -> ops.others

\* C21: in the Operation Steps section the labelled lines are grouped by category in
\* the precedence order of the summarizer (... join, rex, lookup, sort, dedup,
\* table-or-fields), every category that has an entry gets its lines, and the
\* unclassified-other entries come last under the "other" label with their full text.
C21_StepLinesInPrecedenceOrder ==
    RuleDone =>
        LET ls == LineLabels(result.val)
        IN  /\ \A i, j \in DOMAIN ls : i < j => NameRank(ls[i]) <= NameRank(ls[j])
            /\ \A k \in DOMAIN StepNames :
                   EntriesOf(parsed.ops, StepNames[k]) # <<>>
                       <=> \E i \in DOMAIN ls : ls[i] = StepNames[k]
            /\ \A i \in DOMAIN parsed.ops.others :
                   Contains(result.val, <<"- **", "other", "**: ">> \o parsed.ops.others[i])


\* a where entry holds one of the operators >=, <=, a bare > or <, or = followed by
\* a number
HasComparison(w) ==
    \E i \in DOMAIN w :
        \/ w[i] \in {">=", "<=", ">", "<"}
        \/ /\ w[i] = "="
           /\ LET k == SkipWs(w, i + 1) IN k <= Len(w) /\ IsDigitStart(w[k])

\* C22: the "no numeric threshold" warning is raised exactly when there is a where
\* entry and no where entry holds one of the operators >=, <=, a bare >, a bare <, or
\* = followed by a number; a where clause comparing with a bare > does not raise it.
C22_WhereWarningIffNoComparison ==
    RuleDone =>
        ((\E i \in DOMAIN warnings : warnings[i] = W_WHERE)
            <=> /\ parsed.ops.wheres # <<>>
                /\ \A i \in DOMAIN parsed.ops.wheres : ~HasComparison(parsed.ops.wheres[i]))


\* the positions of the text where a key=value token of the time class stands
TimeTokens(text, key) ==
    {i \in DOMAIN text : KeyMatchAt(text, i, key, "time", FALSE)[2] # 0}

\* the value of the key=value token at position i
TimeValueAt(text, i, key) ==
    LET m == KeyMatchAt(text, i, key, "time", FALSE)
    IN  ValueOf(text, m[1], m[2], "time")

\* the overview holds for the key the value of its first token, nothing without one
HoldsFirst(text, key, held) ==
    LET at == TimeTokens(text, key)
    IN  IF at = {} THEN ~held.some
        ELSE LET first == CHOOSE i \in at : \A j \in at : i <= j
             IN  /\ held = Some(TimeValueAt(text, first, key))
                 /\ Contains(result.val, <<key \o "=">> \o TimeValueAt(text, first, key))

\* C23: when the text holds several earliest= or latest= tokens, the time window of
\* the overview holds one value for each key, the value of the first token of the
\* text; later tokens never change it.
C23_FirstTimeTokenWins ==
    RuleDone =>
        /\ HoldsFirst(Strip(spl), "earliest", parsed.overview.earliest)
        /\ HoldsFirst(Strip(spl), "latest", parsed.overview.latest)

\* two earliest tokens with different values and a latest token
C23_Witness ==
    /\ RuleDone
    /\ spl = <<"earliest", "=", "now", SP, "earliest", "=", "-24h", SP,
               "latest", "=", "5", SP>>
    /\ parsed.overview.earliest = Some(<<"now">>)
    /\ parsed.overview.latest = Some(<<"5">>)


\* the values of the key=value tokens of the text, for the key index or sourcetype
SourceValues(text, key) ==
    LET quoted == (key = "sourcetype")
    IN  {ValueOf(text, KeyMatchAt(text, i, key, key, quoted)[1],
                 KeyMatchAt(text, i, key, key, quoted)[2], key) :
           i \in {j \in DOMAIN text : KeyMatchAt(text, j, key, key, quoted)[2] # 0}}

RECURSIVE UpTo(_, _)
\* the tokens of s before the first token of the set stop
UpTo(s, stop) ==
    IF s = <<>> \/ s[1] \in stop THEN <<>> ELSE <<s[1]>> \o UpTo(Tail(s), stop)

\* the values listed after the first token lead of a text, up to the end of the list
ListedAfter(s, lead, sep, stop) ==
    LET at == FirstFrom(s, 1, lead)
    IN  IF at = 0 THEN <<>>
        ELSE SelectSeq(UpTo(SubSeq(s, at + 1, Len(s)), stop), LAMBDA t : t # sep)

\* a list names each value of a set once and nothing else
ListsOnce(list, values) ==
    /\ {<<list[i]>> : i \in DOMAIN list} = values
    /\ \A i, j \in DOMAIN list : i # j => list[i] # list[j]

\* C24: every index= and sourcetype= value of the text, wherever it stands, is
\* collected, and each distinct value stands exactly once in the Data Source section
\* and in the data-source clause of the summary, however often the text holds it.
C24_SourceValuesOnce ==
    RuleDone =>
        \A key \in {"index", "sourcetype"} :
            LET values == SourceValues(Strip(spl), key)
                found  == parsed.overview[key]
            IN  /\ {found[i] : i \in DOMAIN found} = values
                /\ ListsOnce(ListedAfter(result.val, "- " \o key \o ": ", ", ",
                                         {NL, NOT_SPECIFIED}), values)
                /\ ListsOnce(ListedAfter(summary, key \o "=", ",",
                                         {" / ", " and performs "}), values)

\* an index value twice in the base segment and another one in a subsearch
C24_Witness ==
    /\ RuleDone
    /\ spl = <<"index", "=", "main", SP, "index", "=", "main", SP,
               "|", SP, "join", SP, "k", SP, "[", "search", SP, "index", "=", "y", SP,
               "sourcetype", "=", "x", "]", SP>>
    /\ parsed.overview.index = << <<"main">>, <<"main">>, <<"y">> >>
    /\ Contains(result.val, <<"- index: ", "main", ", ", "y", NL>>)


\* the trailing segments of the text that have a body after their leading word
BodiedSegs(text) == SelectSeq(SegsFrom(text, 1), LAMBDA g : BodyOf(g) # <<>>)

RECURSIVE LineBodies(_, _)
\* what the lines of a document labelled with name show, in the order of the lines
LineBodies(md, name) ==
    IF Len(md) < 3 THEN <<>>
    ELSE (IF md[1] = "- **" /\ md[2] = name /\ md[3] = "**: "
          THEN <<UpTo(SubSeq(md, 4, Len(md)), {NL})>> ELSE <<>>)
         \o LineBodies(Tail(md), name)

\* C25: within every category the entries are in the order of their segments in the
\* pipe chain; in the table-or-fields category of the Operation Steps section a
\* fields segment that precedes a table segment comes first and neither is omitted.
C25_EntriesInSegmentOrder ==
    RuleDone =>
        LET segs == BodiedSegs(Strip(spl))
            tf   == SelectSeq(segs, LAMBDA g : LeadWord(g) \in {"table", "fields"})
        IN  /\ \A kw \in DOMAIN CategoryOf :
                   parsed.ops[CategoryOf[kw]] = BodiesFor(segs, kw)
            /\ parsed.ops.others
                   = SelectSeq(segs, LAMBDA g : LeadWord(g) \notin EssentialSet)
            /\ LineBodies(result.val, "table") = [i \in DOMAIN tf |-> BodyOf(tf[i])]


\* C26: the Output Fields section shows the body of the first table or fields segment
\* of the pipe chain, whichever of the two comes first, and the unspecified
\* placeholder exactly when the chain has no table and no fields segment.
C26_OutputFieldsOfFirstSegment ==
    RuleDone =>
        LET segs == BodiedSegs(Strip(spl))
            tf   == SelectSeq(segs, LAMBDA g : LeadWord(g) \in {"table", "fields"})
            shown == IF tf = <<>> THEN <<"(table/fields unspecified)">> ELSE BodyOf(tf[1])
        IN  Contains(result.val, <<NineHeadings[8], NL, "- ">> \o shown \o <<NL>>)


----------------------------------------------------------------------------
(* The engine attempt of src/query_test.py: C27 *)

\* the three API forms in the order of the attempt
ApiForms == <<"responses_str", "responses_msgs", "chat">>

\* what llm_explain_and_validate gave back is (text, None) with a non-empty text or
\* (None, message) with a non-empty message
TextOrError(r) ==
    \/ r.out.some /\ r.out.val # <<>> /\ ~r.err.some
    \/ ~r.out.some /\ r.err.some /\ r.err.val # <<>>

\* C27: llm_explain_and_validate of src/query_test.py tries the three API forms in
\* the order Responses with a string input, Responses with a messages array, Chat
\* Completions, makes each later call only after the call before it raised, never
\* raises itself, and returns (non-empty text, None) or (None, non-empty message).
C27_ThreeFormsInOrder ==
    impl = "llm_query_test" =>
        /\ Len(api_calls) <= Len(ApiForms)
        /\ \A i \in DOMAIN api_calls : api_calls[i].form = ApiForms[i]
        /\ \A i \in DOMAIN api_calls :
               i > 1 => api_calls[i - 1].outcome.kind = "raise"
        /\ pc = "done" => (result.kind = "return" /\ TextOrError(result))


----------------------------------------------------------------------------
(* The stores of the front end: C28 - C30 *)

\* both add_case calls have returned
RaceOver == impl = "race" /\ \A c \in DOMAIN invs : invs[c].pc = "done"

\* C28: when two add_case calls of one user, with records of distinct ids and titles,
\* interleave, every call that returned True has its record in the store afterwards:
\* no accepted case is lost.
C28_NoAcceptedCaseLost ==
    RaceOver =>
        \A c \in DOMAIN invs :
            invs[c].ret => \E i \in DOMAIN cases : cases[i] = invs[c].record

\* what the two load functions return for a user
ViewOf(fs, user_id) ==
    [cases |-> LibraryOf(fs, user_id), completed |-> load_completed_scenarios(fs, user_id)]

\* the step is an add_case or a mark_scenario_completed call made for the user
CallFor(user_id) ==
    \/ \E scenario_data \in StoreRecords : StoreAddCase(user_id, scenario_data)
    \/ \E scenario_id \in ScenarioIds : MarkCompleted(user_id, scenario_id)

\* C29: per-user isolation of the stores: for any two distinct user identifiers, an
\* add_case or mark_scenario_completed call made for one of them never changes what
\* load_cases or load_completed_scenarios returns for the other, also when the two
\* identifiers differ only in characters the sanitisation removes, or are the empty
\* identifier and "default_user".
C29_PerUserIsolation ==
    [][\A user_id \in UserIds :
          CallFor(user_id) =>
              \A other \in UserIds \ {user_id} :
                  ViewOf(files', other) = ViewOf(files, other)]_vars

\* the scenario ids of the calls made for a user
MarkedFor(user_id) == {m[2] : m \in {n \in marked : n[1] = user_id}}

\* C30: after any sequence of mark_scenario_completed calls, the completed set of a
\* user is exactly the set of the non-empty scenario ids marked for that user: a call
\* with a user and an id adds the id and removes no other, a repeated call changes
\* nothing, and a call with an empty user or an empty id leaves the store unchanged.
C30_CompletedIsMarked ==
    impl = "stores" =>
        \A user_id \in UserIds : load_completed_scenarios(files, user_id) = MarkedFor(user_id)

====
